---- MODULE Spec2Model ----
(***************************************************************************)
(* Model of the cooperative round-robin scheduler of src/xen/sched.c and   *)
(* of the clock-sleep adapter and block-I/O pump of src/rumphyper_base.c.  *)
(*                                                                         *)
(* There is one CPU and no preemption: only the thread `current` executes, *)
(* and control changes hands only inside schedule().  Every action below   *)
(* is a run of straight-line code of the current thread between two places *)
(* where the code can be observed by another thread.                       *)
(***************************************************************************)
EXTENDS Integers, Sequences, FiniteSets, TLC

(* ------------------------------ bounds -------------------------------- *)
\* thread descriptors that can ever be allocated (idle and main included)
MaxThreads == 5
\* thread descriptors allocated in runs of the scheduler operations
MaxSchedThreads == 3
\* the clock stops advancing after MaxTime milliseconds
MaxTime == 2
\* largest argument passed to msleep / absmsleep, in milliseconds
MaxSleep == 1
\* request records that rumpuser_bio can allocate
MaxReq == 2
\* block devices that the submitters use: blk0 .. blk<MaxDev - 1>
MaxDev == 2
\* largest transfer length handed to rumpuser_bio
MaxLen == 1
\* largest open refcount that the users of a slot build up
MaxOpen == 2
\* handles that init_blkfront gives for one slot
MaxInit == 2
\* slots that the users of open and close name: blk0 .. blk<MaxSlot - 1>
MaxSlot == 1
\* an absolute sleep five seconds beyond the clock's bound MaxTime, in
\* milliseconds
LongSleep == 5002

(* --------------------------- program constants ------------------------ *)
idle_thread == 1
main_thread == 2
NoThread == 0
NBLKDEV == 10
BLKFDOFF == 64
NoReq == 0
EIO == 5
ENXIO == 6
EBADF == 9
EROFS == 30
NoDev == 0
O_RDONLY == "O_RDONLY"
O_RDWR == "O_RDWR"
RUMPUSER_OPEN_RDONLY == "RDONLY"
RUMPUSER_OPEN_WRONLY == "WRONLY"
RUMPUSER_OPEN_RDWR == "RDWR"
RUMPUSER_FT_BLK == "BLK"
RUMPUSER_BIO_READ == "READ"
RUMPUSER_BIO_WRITE == "WRITE"

Threads == 1..MaxThreads

RUNNABLE_FLAG == "RUNNABLE"
THREAD_MUSTJOIN == "MUSTJOIN"
THREAD_JOINED == "JOINED"
THREAD_EXTSTACK == "EXTSTACK"
THREAD_TIMEDOUT == "TIMEDOUT"

\* The model's clock counts microseconds (a nanosecond count does not fit
\* the checker's integers); the conversions keep their factors.
UsecPerMsec == 1000
MILLISECS(ms) == ms * UsecPerMsec
SECONDS(s) == s * 1000 * UsecPerMsec
\* nanoseconds, as passed by callers of rumpuser_clock_sleep, on the clock
NsecToClock(nsec) == nsec \div 1000

VARIABLES
    thread_list,      \* the run set R, head first
    exited_threads,   \* the exited set E, head first
    joinwq,           \* the join-wait set J: records [jw_thread, jw_wanted]
    thr,              \* per descriptor: [flags, wakeup_time]
    current,          \* the thread whose stack is executing
    now,              \* NOW(), monotonic
    pc,               \* per thread: where its code stands
    ret,              \* per thread: where its pending schedule() returns to
    arg,              \* per thread: the argument of the call it is in
    rv,               \* per thread: result of its last dosleep
    freed,            \* descriptors released by xfree
    stack_freed,      \* stacks released by free_pages
    block_deadline,   \* deadline of the last block_domain call, 0 if none
    cause,            \* history: what last made the thread runnable
    joinable,         \* history: created with THREAD_MUSTJOIN / acknowledged
    sleepcall,        \* history: the kind of the thread's last sleep call
    since,            \* history: selections made while the thread waited
    K,                \* history: threads runnable throughout that wait
    sel,              \* history: threads selected during that wait
    bio_inited,       \* rumpuser_bio's static flag: the pump exists
    bio_mtx,          \* holder of bio_mtx, NoThread when free
    bio_cv,           \* threads waiting on bio_cv
    bio_outstanding_total,
    blkdev_outstanding, \* per slot 0 .. NBLKDEV - 1
    blkfront_queue,   \* threads registered on the backend's wait object
    aio,              \* per request record: the biocb and its aiocb
    bio_done,         \* history: the calls of the user's biodone, per request
    biocb,            \* per thread: the record of the rumpuser_bio it is in
    blkopen,          \* per slot: open refcount
    blkdevs,          \* per slot: handle of the backend device, NoDev if NULL
    blkinfos,         \* per slot: [mode, sectors, sector_size]
    blk_inits,        \* history: calls of init_blkfront, per slot
    blk_live,         \* history: handles initialised and not shut down
    blk_shutdowns,    \* history: handles given to shutdown_blkfront, in order
    blk_users,        \* history: opens that returned 0 and are not closed
    devcall,          \* per thread: locals and result of its open/close call
    irq_flags,        \* the event mask of the CPU: 1 masked, 0 unmasked
    irq_saved,        \* the masks saved by local_irq_save and not yet restored
    in_callback,      \* an event callback is running
    bug,              \* the fatal state that BUG() leaves, "none" if none
    irq_log           \* history: the mutations and schedule() calls of the
                      \* last step, each with the mask it was made under

schedvars == <<thread_list, exited_threads, joinwq, thr, current, now, pc, ret,
               arg, rv, freed, stack_freed, block_deadline, cause, joinable,
               sleepcall>>
fairvars == <<since, K, sel>>
biovars == <<bio_inited, bio_mtx, bio_cv, bio_outstanding_total,
             blkdev_outstanding, blkfront_queue, aio, bio_done, biocb>>
devvars == <<blkopen, blkdevs, blkinfos, blk_inits, blk_live, blk_shutdowns,
             blk_users, devcall>>
irqvars == <<irq_flags, irq_saved, in_callback, bug, irq_log>>
vars == <<schedvars, fairvars, biovars, devvars, irqvars>>

Reqs == 1..MaxReq
Slots == 0..(NBLKDEV - 1)
NoBio == UNCHANGED biovars
NoDevs == UNCHANGED devvars
NoIrq == UNCHANGED irqvars

\* The locals of a thread that is in no open/close call.
NoCall == [fn |-> "none", num |-> 0, bio |-> TRUE,
           acc |-> RUMPUSER_OPEN_RDONLY,
           pre_open |-> 0, pre_dev |-> NoDev, alone |-> TRUE, dev |-> NoDev,
           rv |-> 0, fd |-> 0, size |-> 0, type |-> "none"]

(* ------------------------------ helpers ------------------------------- *)
Range(s) == {s[i] : i \in 1..Len(s)}

RECURSIVE SeqRemove(_, _)
SeqRemove(s, x) ==
    IF s = <<>> THEN <<>>
    ELSE IF Head(s) = x THEN Tail(s)
    ELSE <<Head(s)>> \o SeqRemove(Tail(s), x)

IndexOf(s, x) == CHOOSE i \in 1..Len(s) : s[i] = x

is_runnable(th, t) == RUNNABLE_FLAG \in th[t].flags
set_runnable(th, t) == [th EXCEPT ![t].flags = @ \cup {RUNNABLE_FLAG}]
clear_runnable(th, t) == [th EXCEPT ![t].flags = @ \ {RUNNABLE_FLAG}]

\* wake() that leaves the deadline of the sleeper in place
wake_keep_deadline(th, t) == set_runnable(th, t)

\* void wake(struct thread *)
wake(th, t) == set_runnable([th EXCEPT ![t].wakeup_time = 0], t)

\* void block(struct thread *)
block(th, t) == clear_runnable([th EXCEPT ![t].wakeup_time = 0], t)

Unborn == Threads \ (Range(thread_list) \cup Range(exited_threads) \cup freed)
Live == Range(thread_list) \cup Range(exited_threads)

(* ------------------------------- Init --------------------------------- *)
\* init_sched has created the idle thread, the application's main thread
\* has been created after it, and the idle thread has been started.
Init ==
    /\ thread_list = <<idle_thread, main_thread>>
    /\ exited_threads = <<>>
    /\ joinwq = <<>>
    /\ thr = [t \in Threads |->
                [flags |-> IF t \in {idle_thread, main_thread}
                           THEN {RUNNABLE_FLAG} ELSE {},
                 wakeup_time |-> 0]]
    /\ current = idle_thread
    /\ now = MILLISECS(1)
    /\ pc = [t \in Threads |-> IF t = idle_thread THEN "idle_fn" ELSE "user"]
    /\ ret = [t \in Threads |-> "user"]
    /\ arg = [t \in Threads |-> 0]
    /\ rv = [t \in Threads |-> FALSE]
    /\ freed = {}
    /\ stack_freed = {}
    /\ block_deadline = 0
    /\ cause = [t \in Threads |-> "none"]
    /\ joinable = [t \in Threads |-> "no"]
    /\ sleepcall = [t \in Threads |-> "none"]
    /\ since = [t \in Threads |-> 0]
    /\ K = [t \in Threads |-> IF t \in {idle_thread, main_thread}
                               THEN {idle_thread, main_thread} ELSE {}]
    /\ sel = [t \in Threads |-> {}]
    /\ bio_inited = FALSE
    /\ bio_mtx = NoThread
    /\ bio_cv = {}
    /\ bio_outstanding_total = 0
    /\ blkdev_outstanding = [i \in Slots |-> 0]
    /\ blkfront_queue = {}
    /\ aio = [r \in Reqs |-> [st |-> "free", bio_num |-> 0,
                               aio_nbytes |-> 0, ret |-> 0, counted |-> FALSE]]
    /\ bio_done = [r \in Reqs |-> <<>>]
    /\ biocb = [t \in Threads |-> NoReq]
    /\ blkopen = [i \in Slots |-> 0]
    /\ blkdevs = [i \in Slots |-> NoDev]
    /\ blkinfos = [i \in Slots |-> [mode |-> O_RDONLY, sectors |-> 0,
                                     sector_size |-> 0]]
    /\ blk_inits = [i \in Slots |-> 0]
    /\ blk_live = [i \in Slots |-> {}]
    /\ blk_shutdowns = [i \in Slots |-> <<>>]
    /\ blk_users = [i \in Slots |-> 0]
    /\ devcall = [t \in Threads |-> NoCall]
    /\ irq_flags = 0
    /\ irq_saved = <<>>
    /\ in_callback = FALSE
    /\ bug = "none"
    /\ irq_log = {}

(* ----------------------------- schedule() ----------------------------- *)
\* a scan visit whose timeout path takes wakeup_time = 0 for a deadline
ScanVisit_no_sentinel(th, t, tnow, minw) ==
    IF ~is_runnable(th, t) /\ th[t].wakeup_time <= tnow
    THEN [thr |-> wake([th EXCEPT ![t].flags = @ \cup {THREAD_TIMEDOUT}], t),
          minw |-> minw]
    ELSE [thr |-> th, minw |-> minw]

\* a scan visit that never lowers the deadline of block_domain
ScanVisit_fixed_deadline(th, t, tnow, minw) ==
    IF ~is_runnable(th, t) /\ th[t].wakeup_time # 0 /\ th[t].wakeup_time <= tnow
    THEN [thr |-> wake([th EXCEPT ![t].flags = @ \cup {THREAD_TIMEDOUT}], t),
          minw |-> minw]
    ELSE [thr |-> th, minw |-> minw]

\* One visit of the selection scan to thread t: the timeout path of
\* lines 105-112.
ScanVisit(th, t, tnow, minw) ==
    IF ~is_runnable(th, t) /\ th[t].wakeup_time # 0
    THEN IF th[t].wakeup_time <= tnow
         THEN [thr |-> wake([th EXCEPT ![t].flags = @ \cup {THREAD_TIMEDOUT}], t),
               minw |-> minw]
         ELSE [thr |-> th,
               minw |-> IF th[t].wakeup_time < minw
                        THEN th[t].wakeup_time ELSE minw]
    ELSE [thr |-> th, minw |-> minw]

\* TAILQ_FOREACH_SAFE over thread_list from position i, lines 103-121.
RECURSIVE Scan(_, _, _, _, _)
Scan(list, i, th, tnow, minw) ==
    IF i > Len(list)
    THEN [next |-> NoThread, thr |-> th, min_wakeup_time |-> minw]
    ELSE LET v == ScanVisit(th, list[i], tnow, minw) IN
         IF is_runnable(v.thr, list[i])
         THEN [next |-> list[i], thr |-> v.thr, min_wakeup_time |-> v.minw]
         ELSE Scan(list, i + 1, v.thr, tnow, v.minw)

\* a selection that leaves the selected thread where it is in the run set
Rotate_none(list, t) == list

\* a rotation that unlinks the selected thread and does not re-insert it
Rotate_unlink_only(list, t) == SeqRemove(list, t)

\* TAILQ_REMOVE + TAILQ_INSERT_TAIL, lines 117-118
Rotate(list, t) == Append(SeqRemove(list, t), t)

\* A pass of schedule() by the current thread: the scan, and either the
\* switch to the selected thread or block_domain until the next deadline.
\* A thread switched away from stays inside schedule ("sched_out") and
\* continues with the reaping loop when it is selected again.
Schedule ==
    /\ pc[current] = "sched"
    /\ LET r == Scan(thread_list, 1, thr, now, now + SECONDS(10))
           prev == current
           next == r.next
       IN IF next # NoThread
          THEN /\ thread_list' = Rotate(thread_list, next)
               /\ thr' = r.thr
               /\ current' = next
               /\ cause' = IF ~is_runnable(thr, next)
                           THEN [cause EXCEPT ![next] = "timeout"] ELSE cause
               /\ pc' = IF next = prev
                        THEN [pc EXCEPT ![prev] = "sched_reap"]
                        ELSE [pc EXCEPT ![prev] = "sched_out",
                                        ![next] = IF pc[next] = "sched_out"
                                                  THEN "sched_reap" ELSE @]
               /\ block_deadline' = 0
          ELSE /\ block_deadline' = r.min_wakeup_time
               /\ thr' = r.thr
               /\ UNCHANGED <<thread_list, current, cause, pc>>
    /\ UNCHANGED <<exited_threads, joinwq, now, ret, arg, rv, freed,
                   stack_freed, joinable, sleepcall>>

\* The reaping loop of lines 134-143, run by the thread that schedule()
\* returns in, and the return to the caller of schedule().
Reapable(prev) == {t \in Range(exited_threads) : t # prev}

Reap ==
    /\ pc[current] = "sched_reap"
    /\ LET prev == current
           dead == Reapable(prev)
       IN /\ exited_threads' = SelectSeq(exited_threads, LAMBDA t : t \notin dead)
          /\ stack_freed' = stack_freed \cup
                 {t \in dead : THREAD_EXTSTACK \notin thr[t].flags}
          /\ freed' = freed \cup dead
    /\ pc' = [pc EXCEPT ![current] = ret[current]]
    /\ ret' = [ret EXCEPT ![current] = "user"]
    /\ cause' = IF ret[current] = "user"
                THEN [cause EXCEPT ![current] = "none"] ELSE cause
    /\ UNCHANGED <<thread_list, joinwq, thr, current, now, arg, rv,
                   block_deadline, joinable, sleepcall>>

\* Time passes.  The clock is read by the scan of schedule() and by user
\* code calling msleep / absmsleep, so it is advanced where it can be read.
Tick ==
    /\ now < MILLISECS(MaxTime)
    /\ pc[current] \in {"sched", "user"}
    /\ now' = now + MILLISECS(1)
    /\ UNCHANGED <<thread_list, exited_threads, joinwq, thr, current, pc, ret,
                   arg, rv, freed, stack_freed, block_deadline, cause, joinable,
          sleepcall>>

(* --------------------------- thread operations ------------------------ *)
\* The caller enters schedule(), which will return to `back`.
CallSchedule(t, back) ==
    /\ pc' = [pc EXCEPT ![t] = "sched"]
    /\ ret' = [ret EXCEPT ![t] = back]

\* A thread runs user code: it is the current thread and is in no call.
Running(t) == t = current /\ pc[t] = "user"

\* schedule() called directly by user code: a plain yield.
Yield(t) ==
    /\ Running(t)
    /\ CallSchedule(t, "user")
    /\ UNCHANGED <<thread_list, exited_threads, joinwq, thr, current, now, arg,
                   rv, freed, stack_freed, block_deadline, cause, joinable,
                   sleepcall>>

\* idle_thread_fn: while (1) { block(current); schedule(); }
IdleLoop ==
    /\ current = idle_thread /\ pc[idle_thread] = "idle_fn"
    /\ thr' = block(thr, idle_thread)
    /\ cause' = [cause EXCEPT ![idle_thread] = "none"]
    /\ CallSchedule(idle_thread, "idle_fn")
    /\ UNCHANGED <<thread_list, exited_threads, joinwq, current, now, arg, rv,
                   freed, stack_freed, block_deadline, joinable, sleepcall>>

\* arch_create_thread: the descriptor with its stack, adopted when given.
arch_create_thread(th, n, stack) ==
    [th EXCEPT ![n].flags = IF stack = "ext" THEN {THREAD_EXTSTACK} ELSE {}]

\* create_thread, lines 153-162: the fields of the new descriptor.
create_thread(th, n, stack) ==
    set_runnable([arch_create_thread(th, n, stack)
                    EXCEPT ![n].flags = {}, ![n].wakeup_time = 0], n)

\* The creator marks the new thread joinable before the thread can run.
set_mustjoin(th, n, mj) ==
    IF mj THEN [th EXCEPT ![n].flags = @ \cup {THREAD_MUSTJOIN}] ELSE th

NewThread == CHOOSE n \in Unborn : \A m \in Unborn : n <= m

Create(t, stack, mj) ==
    /\ Running(t)
    /\ Unborn # {}
    /\ LET n == NewThread IN
       /\ thr' = set_mustjoin(create_thread(thr, n, stack), n, mj)
       /\ thread_list' = Append(thread_list, n)
       /\ pc' = [pc EXCEPT ![n] = "user"]
       /\ joinable' = [joinable EXCEPT ![n] = IF mj THEN "yes" ELSE "no"]
       /\ cause' = [cause EXCEPT ![n] = "none"]
    /\ UNCHANGED <<exited_threads, joinwq, current, now, ret, arg, rv, freed,
                   stack_freed, block_deadline, sleepcall>>

\* History: a wake made the parked thread u runnable.
Woken(u) == IF is_runnable(thr, u) THEN cause ELSE [cause EXCEPT ![u] = "wake"]

\* wake(u) called by user code of t on another thread's descriptor.
Wake(t, u) ==
    /\ Running(t)
    /\ u \in Live /\ u # t
    /\ thr' = wake(thr, u)
    /\ cause' = Woken(u)
    /\ UNCHANGED <<thread_list, exited_threads, joinwq, current, now, pc, ret,
                   arg, rv, freed, stack_freed, block_deadline, joinable,
                   sleepcall>>

\* block(current); schedule(); by user code.
BlockSelf(t) ==
    /\ Running(t)
    /\ thr' = block(thr, t)
    /\ cause' = [cause EXCEPT ![t] = "none"]
    /\ CallSchedule(t, "unblocked")
    /\ UNCHANGED <<thread_list, exited_threads, joinwq, current, now, arg, rv,
                   freed, stack_freed, block_deadline, joinable, sleepcall>>

\* The schedule() that followed block(current) has returned to user code.
Unblocked(t) ==
    /\ t = current /\ pc[t] = "unblocked"
    /\ pc' = [pc EXCEPT ![t] = "user"]
    /\ cause' = [cause EXCEPT ![t] = "none"]
    /\ UNCHANGED <<thread_list, exited_threads, joinwq, thr, current, now, ret,
                   arg, rv, freed, stack_freed, block_deadline, joinable,
                   sleepcall>>

(* ------------------------------ sleeping ------------------------------ *)
\* dosleep that does not clear a stale THREAD_TIMEDOUT before sleeping
dosleep_arm_stale(th, t, wakeuptime) ==
    [th EXCEPT ![t].wakeup_time = wakeuptime]

\* dosleep, lines 257-258
dosleep_arm(th, t, wakeuptime) ==
    [th EXCEPT ![t].wakeup_time = wakeuptime,
               ![t].flags = @ \ {THREAD_TIMEDOUT}]

\* dosleep, lines 262-263
dosleep_rv(th, t) == THREAD_TIMEDOUT \in th[t].flags
dosleep_done(th, t) == [th EXCEPT ![t].flags = @ \ {THREAD_TIMEDOUT}]

DoSleepEnter(t, wakeuptime, kind) ==
    /\ Running(t)
    /\ thr' = dosleep_arm(thr, t, wakeuptime)
    /\ pc' = [pc EXCEPT ![t] = "dosleep_259"]
    /\ sleepcall' = [sleepcall EXCEPT ![t] = kind]
    /\ UNCHANGED <<thread_list, exited_threads, joinwq, current, now, ret, arg,
                   rv, freed, stack_freed, block_deadline, cause, joinable>>

\* int msleep(uint32_t millisecs)
Msleep(t, millisecs) ==
    DoSleepEnter(t, now + MILLISECS(millisecs), "msleep")

\* int absmsleep(uint32_t millisecs)
Absmsleep(t, millisecs) ==
    DoSleepEnter(t, MILLISECS(millisecs),
                 IF MILLISECS(millisecs) <= now THEN "abs_past" ELSE "abs_future")

\* dosleep, lines 259-260
DoSleepPark(t) ==
    /\ t = current /\ pc[t] = "dosleep_259"
    /\ thr' = clear_runnable(thr, t)
    /\ cause' = [cause EXCEPT ![t] = "none"]
    /\ CallSchedule(t, "dosleep_262")
    /\ UNCHANGED <<thread_list, exited_threads, joinwq, current, now, arg, rv,
                   freed, stack_freed, block_deadline, joinable, sleepcall>>

\* dosleep, lines 262-264
DoSleepReturn(t) ==
    /\ t = current /\ pc[t] = "dosleep_262"
    /\ rv' = [rv EXCEPT ![t] = dosleep_rv(thr, t)]
    /\ thr' = dosleep_done(thr, t)
    /\ pc' = [pc EXCEPT ![t] = "slept"]
    /\ UNCHANGED <<thread_list, exited_threads, joinwq, current, now, ret, arg,
                   freed, stack_freed, block_deadline, cause, joinable,
                   sleepcall>>

\* The caller of msleep / absmsleep has the result and goes on.
SleepResult(t) ==
    /\ t = current /\ pc[t] = "slept"
    /\ pc' = [pc EXCEPT ![t] = "user"]
    /\ rv' = [rv EXCEPT ![t] = FALSE]
    /\ cause' = [cause EXCEPT ![t] = "none"]
    /\ sleepcall' = [sleepcall EXCEPT ![t] = "none"]
    /\ UNCHANGED <<thread_list, exited_threads, joinwq, thr, current, now, ret,
                   arg, freed, stack_freed, block_deadline, joinable>>

\* rumpuser_clock_sleep, RUMPUSER_CLOCK_RELWALL: lines 145-146
ClockSleepRel(t, sec, nsec) ==
    Msleep(t, sec * 1000 + nsec \div (1000 * 1000))

\* rumpuser_clock_sleep, RUMPUSER_CLOCK_ABSMONO: lines 149-150
clock_absmono_arm(th, t, sec, nsec) ==
    [th EXCEPT ![t].wakeup_time = SECONDS(sec) + NsecToClock(nsec)]

ClockSleepAbs(t, sec, nsec) ==
    /\ Running(t)
    /\ thr' = clock_absmono_arm(thr, t, sec, nsec)
    /\ pc' = [pc EXCEPT ![t] = "clock_151"]
    /\ UNCHANGED <<thread_list, exited_threads, joinwq, current, now, ret, arg,
                   rv, freed, stack_freed, block_deadline, cause, joinable,
                   sleepcall>>

\* rumpuser_clock_sleep, RUMPUSER_CLOCK_ABSMONO: lines 151-152
ClockSleepPark(t) ==
    /\ t = current /\ pc[t] = "clock_151"
    /\ thr' = clear_runnable(thr, t)
    /\ cause' = [cause EXCEPT ![t] = "none"]
    /\ CallSchedule(t, "user")
    /\ UNCHANGED <<thread_list, exited_threads, joinwq, current, now, arg, rv,
                   freed, stack_freed, block_deadline, joinable, sleepcall>>

(* ---------------------------- exit and join --------------------------- *)
\* user code calls exit_thread(); the idle thread never does.
Exit(t) ==
    /\ Running(t) /\ t # idle_thread
    /\ pc' = [pc EXCEPT ![t] = "exit_gate"]
    /\ UNCHANGED <<thread_list, exited_threads, joinwq, thr, current, now, ret,
                   arg, rv, freed, stack_freed, block_deadline, cause, joinable,
                   sleepcall>>

\* The first join_waiter of joinwq that wants t, lines 186-191.
JoinersOf(t) == {i \in 1..Len(joinwq) : joinwq[i].jw_wanted = t}
FirstJoiner(t) ==
    joinwq[CHOOSE i \in JoinersOf(t) : \A k \in JoinersOf(t) : i <= k].jw_thread

\* a gate that waits for THREAD_JOINED instead of testing THREAD_MUSTJOIN
exit_gated_on_joined(th, t) == THREAD_JOINED \notin th[t].flags

\* exit_thread: the test of the gate, line 181.
exit_gated(th, t) == THREAD_MUSTJOIN \in th[t].flags

\* a turn of the gate that does not look for the joiner
exit_gate_turn_no_wake(th, t) ==
    block([th EXCEPT ![t].flags = @ \cup {THREAD_JOINED}], t)

\* exit_thread, lines 182-192: one turn of the gate.
exit_gate_turn(th, t) ==
    LET joined == [th EXCEPT ![t].flags = @ \cup {THREAD_JOINED}]
        woken == IF JoinersOf(t) # {} THEN wake(joined, FirstJoiner(t))
                 ELSE joined
    IN block(woken, t)

\* exit_thread that leaves the thread on thread_list
exit_unlink_skipped(list, t) == list

\* exit_thread, line 200: TAILQ_REMOVE(&thread_list, thread, thread_list)
exit_unlink(list, t) == SeqRemove(list, t)

\* exit_thread from its start, or from the return of the gate's schedule():
\* either one more turn of the gate (lines 181-193), or the move from the
\* run set to the exited set and the first schedule() of the final loop
\* (lines 200-209).
ExitGate(t) ==
    /\ t = current /\ pc[t] = "exit_gate"
    /\ IF exit_gated(thr, t)
       THEN /\ thr' = exit_gate_turn(thr, t)
            /\ cause' = [(IF JoinersOf(t) # {} THEN Woken(FirstJoiner(t))
                           ELSE cause) EXCEPT ![t] = "none"]
            /\ CallSchedule(t, "exit_gate")
            /\ UNCHANGED <<thread_list, exited_threads>>
       ELSE /\ thread_list' = exit_unlink(thread_list, t)
            /\ thr' = clear_runnable(thr, t)
            /\ exited_threads' = <<t>> \o exited_threads
            /\ cause' = [cause EXCEPT ![t] = "none"]
            /\ CallSchedule(t, "exit_loop")
    /\ UNCHANGED <<joinwq, current, now, arg, rv, freed, stack_freed,
                   block_deadline, joinable, sleepcall>>

\* Threads inside join_thread(j).
Joining(j) == {u \in Threads : pc[u] \in {"join_gate", "join_unlink", "joined"}
                                 \/ (pc[u] \in {"sched", "sched_out", "sched_reap"}
                                     /\ ret[u] = "join_unlink")}
JoiningOn(j) == {u \in Joining(j) : arg[u] = j}

\* user code calls join_thread(j): j is joinable (the ASSERT of line 222)
\* and has no other joiner.
Join(t, j) ==
    /\ Running(t)
    /\ j \in Range(thread_list) /\ j # t
    /\ THREAD_MUSTJOIN \in thr[j].flags
    /\ JoiningOn(j) = {}
    /\ pc' = [pc EXCEPT ![t] = "join_gate"]
    /\ arg' = [arg EXCEPT ![t] = j]
    /\ UNCHANGED <<thread_list, exited_threads, joinwq, thr, current, now, ret,
                   rv, freed, stack_freed, block_deadline, cause, joinable,
                   sleepcall>>

\* join_thread: the test of the wait loop, line 224.
join_waits(th, j) == THREAD_JOINED \notin th[j].flags

\* join_thread, lines 239-242
join_ack(th, j) == wake([th EXCEPT ![j].flags = @ \ {THREAD_MUSTJOIN}], j)

\* join_thread at the test of its loop: park on joinwq (lines 227-231), or
\* acknowledge the exiting thread and return (lines 238-242).
JoinGate(t) ==
    /\ t = current /\ pc[t] = "join_gate"
    /\ LET j == arg[t] IN
       IF join_waits(thr, j)
       THEN /\ joinwq' = Append(joinwq, [jw_thread |-> t, jw_wanted |-> j])
            /\ thr' = block(thr, t)
            /\ cause' = [cause EXCEPT ![t] = "none"]
            /\ CallSchedule(t, "join_unlink")
            /\ UNCHANGED joinable
       ELSE /\ thr' = join_ack(thr, j)
            /\ cause' = Woken(j)
            /\ joinable' = [joinable EXCEPT ![j] = "acked"]
            /\ pc' = [pc EXCEPT ![t] = "joined"]
            /\ UNCHANGED <<joinwq, ret>>
    /\ UNCHANGED <<thread_list, exited_threads, current, now, arg, rv, freed,
                   stack_freed, block_deadline, sleepcall>>

\* join_thread has returned to its caller.
JoinResult(t) ==
    /\ t = current /\ pc[t] = "joined"
    /\ pc' = [pc EXCEPT ![t] = "user"]
    /\ arg' = [arg EXCEPT ![t] = 0]
    /\ UNCHANGED <<thread_list, exited_threads, joinwq, thr, current, now, ret,
                   rv, freed, stack_freed, block_deadline, cause, joinable,
                   sleepcall>>

\* join_thread, line 232: back from schedule(), unlink the join_waiter.
JoinUnlink(t) ==
    /\ t = current /\ pc[t] = "join_unlink"
    /\ joinwq' = SelectSeq(joinwq, LAMBDA jw : jw.jw_thread # t)
    /\ pc' = [pc EXCEPT ![t] = "join_gate"]
    /\ UNCHANGED <<thread_list, exited_threads, thr, current, now, ret, arg,
                   rv, freed, stack_freed, block_deadline, cause, joinable,
                   sleepcall>>

(* ------------------------------- Next --------------------------------- *)
SleepArgs == 0..MaxSleep
AbsArgs == (0..MaxTime) \cup {LongSleep}
NsecArgs == {MILLISECS(ms) * 1000 : ms \in 0..MaxSleep}

(* ----------------------- history of the selections --------------------- *)
InR(t) == t \in Range(thread_list)
InE(t) == t \in Range(exited_threads)

\* A pass of schedule() selects a thread in this step.
Selecting ==
    /\ pc[current] = "sched"
    /\ current' # current \/ pc'[current] = "sched_reap"

\* The runnable members of a run set.
RunnableIn(list, th) == {u \in Range(list) : is_runnable(th, u)}

\* For every thread that is runnable and in the run set: the number of
\* selections made since it was last selected (or became runnable), the
\* threads that have been runnable ever since, and the threads that those
\* selections took.
FairHist ==
    LET was == RunnableIn(thread_list, thr)
        is == RunnableIn(thread_list', thr')
        opens(t) == t \in is /\ (IF Selecting THEN t = current'
                                 ELSE ~(t \in was /\ t \in K[t]))
        waits(t) == t \in is /\ ~opens(t)
    IN /\ since' = [t \in Threads |->
                      IF waits(t) THEN (IF Selecting THEN since[t] + 1
                                        ELSE since[t])
                      ELSE 0]
       /\ K' = [t \in Threads |->
                  IF opens(t) THEN is
                  ELSE IF waits(t) THEN K[t] \cap is ELSE {}]
       /\ sel' = [t \in Threads |->
                    IF waits(t) THEN (IF Selecting THEN sel[t] \cup {current'}
                                      ELSE sel[t])
                    ELSE {}]

\* The scheduler's operations.
Room == Cardinality(Unborn) > MaxThreads - MaxSchedThreads
NoHist == UNCHANGED fairvars

Next ==
    \/ Schedule /\ NoHist /\ NoIrq /\ NoBio /\ NoDevs
    \/ Reap /\ NoHist /\ NoIrq /\ NoBio /\ NoDevs
    \/ Tick /\ NoHist /\ NoIrq /\ NoBio /\ NoDevs
    \/ IdleLoop /\ NoHist /\ NoIrq /\ NoBio /\ NoDevs
    \/ \E t \in Threads :
           Yield(t) /\ NoHist /\ NoIrq /\ NoBio /\ NoDevs
    \/ \E t \in Threads, stack \in {"NULL", "ext"}, mj \in BOOLEAN :
           Create(t, stack, mj) /\ Room /\ NoHist /\ NoIrq /\ NoBio /\ NoDevs
    \/ \E t, u \in Threads :
           Wake(t, u) /\ NoHist /\ NoIrq /\ NoBio /\ NoDevs
    \/ \E t \in Threads :
           BlockSelf(t) /\ NoHist /\ NoIrq /\ NoBio /\ NoDevs
    \/ \E t \in Threads :
           Unblocked(t) /\ NoHist /\ NoIrq /\ NoBio /\ NoDevs
    \/ \E t \in Threads, ms \in SleepArgs :
           Msleep(t, ms) /\ NoHist /\ NoIrq /\ NoBio /\ NoDevs
    \/ \E t \in Threads, ms \in AbsArgs :
           Absmsleep(t, ms) /\ NoHist /\ NoIrq /\ NoBio /\ NoDevs
    \/ \E t \in Threads :
           DoSleepPark(t) /\ NoHist /\ NoIrq /\ NoBio /\ NoDevs
    \/ \E t \in Threads :
           DoSleepReturn(t) /\ NoHist /\ NoIrq /\ NoBio /\ NoDevs
    \/ \E t \in Threads :
           SleepResult(t) /\ NoHist /\ NoIrq /\ NoBio /\ NoDevs
    \/ \E t \in Threads, nsec \in NsecArgs :
           ClockSleepRel(t, 0, nsec) /\ NoHist /\ NoIrq /\ NoBio /\ NoDevs
    \/ \E t \in Threads, nsec \in NsecArgs :
           ClockSleepAbs(t, 0, nsec) /\ NoHist /\ NoIrq /\ NoBio /\ NoDevs
    \/ \E t \in Threads :
           ClockSleepPark(t) /\ NoHist /\ NoIrq /\ NoBio /\ NoDevs
    \/ \E t \in Threads :
           Exit(t) /\ NoHist /\ NoIrq /\ NoBio /\ NoDevs
    \/ \E t \in Threads :
           ExitGate(t) /\ NoHist /\ NoIrq /\ NoBio /\ NoDevs
    \/ \E t, j \in Threads :
           Join(t, j) /\ NoHist /\ NoIrq /\ NoBio /\ NoDevs
    \/ \E t \in Threads :
           JoinGate(t) /\ NoHist /\ NoIrq /\ NoBio /\ NoDevs
    \/ \E t \in Threads :
           JoinUnlink(t) /\ NoHist /\ NoIrq /\ NoBio /\ NoDevs
    \/ \E t \in Threads :
           JoinResult(t) /\ NoHist /\ NoIrq /\ NoBio /\ NoDevs

\* The scheduler's operations, each with the history of the selections.
NextFair ==
    \/ Schedule /\ FairHist /\ NoIrq /\ NoBio /\ NoDevs
    \/ Reap /\ FairHist /\ NoIrq /\ NoBio /\ NoDevs
    \/ Tick /\ FairHist /\ NoIrq /\ NoBio /\ NoDevs
    \/ IdleLoop /\ FairHist /\ NoIrq /\ NoBio /\ NoDevs
    \/ \E t \in Threads :
           Yield(t) /\ FairHist /\ NoIrq /\ NoBio /\ NoDevs
    \/ \E t \in Threads, stack \in {"NULL", "ext"}, mj \in BOOLEAN :
           Create(t, stack, mj) /\ Room /\ FairHist /\ NoIrq /\ NoBio /\ NoDevs
    \/ \E t, u \in Threads :
           Wake(t, u) /\ FairHist /\ NoIrq /\ NoBio /\ NoDevs
    \/ \E t \in Threads :
           BlockSelf(t) /\ FairHist /\ NoIrq /\ NoBio /\ NoDevs
    \/ \E t \in Threads :
           Unblocked(t) /\ FairHist /\ NoIrq /\ NoBio /\ NoDevs
    \/ \E t \in Threads, ms \in SleepArgs :
           Msleep(t, ms) /\ FairHist /\ NoIrq /\ NoBio /\ NoDevs
    \/ \E t \in Threads, ms \in AbsArgs :
           Absmsleep(t, ms) /\ FairHist /\ NoIrq /\ NoBio /\ NoDevs
    \/ \E t \in Threads :
           DoSleepPark(t) /\ FairHist /\ NoIrq /\ NoBio /\ NoDevs
    \/ \E t \in Threads :
           DoSleepReturn(t) /\ FairHist /\ NoIrq /\ NoBio /\ NoDevs
    \/ \E t \in Threads :
           SleepResult(t) /\ FairHist /\ NoIrq /\ NoBio /\ NoDevs
    \/ \E t \in Threads, nsec \in NsecArgs :
           ClockSleepRel(t, 0, nsec) /\ FairHist /\ NoIrq /\ NoBio /\ NoDevs
    \/ \E t \in Threads, nsec \in NsecArgs :
           ClockSleepAbs(t, 0, nsec) /\ FairHist /\ NoIrq /\ NoBio /\ NoDevs
    \/ \E t \in Threads :
           ClockSleepPark(t) /\ FairHist /\ NoIrq /\ NoBio /\ NoDevs
    \/ \E t \in Threads :
           Exit(t) /\ FairHist /\ NoIrq /\ NoBio /\ NoDevs
    \/ \E t \in Threads :
           ExitGate(t) /\ FairHist /\ NoIrq /\ NoBio /\ NoDevs
    \/ \E t, j \in Threads :
           Join(t, j) /\ FairHist /\ NoIrq /\ NoBio /\ NoDevs
    \/ \E t \in Threads :
           JoinGate(t) /\ FairHist /\ NoIrq /\ NoBio /\ NoDevs
    \/ \E t \in Threads :
           JoinUnlink(t) /\ FairHist /\ NoIrq /\ NoBio /\ NoDevs
    \/ \E t \in Threads :
           JoinResult(t) /\ FairHist /\ NoIrq /\ NoBio /\ NoDevs

Spec == Init /\ [][Next]_vars

\* The code of the current thread that runs without a choice of the caller:
\* the CPU keeps executing it.
Sys ==
    \/ Schedule \/ Reap \/ IdleLoop
    \/ \E t \in Threads :
           \/ Unblocked(t) \/ DoSleepPark(t) \/ DoSleepReturn(t)
           \/ SleepResult(t) \/ ClockSleepPark(t) \/ ExitGate(t)
           \/ JoinGate(t) \/ JoinUnlink(t) \/ JoinResult(t)

\* Fair scheduling: the CPU keeps executing the current thread, and every
\* thread running user code calls schedule() again (cooperation).
Fairness ==
    /\ WF_vars(Sys /\ NoHist /\ NoIrq /\ NoBio /\ NoDevs)
    /\ WF_vars((\E t \in Threads : Yield(t)) /\ NoHist /\ NoIrq /\ NoBio /\ NoDevs)

LiveSpec == Init /\ [][Next]_vars /\ Fairness

\* The same operations, with the history of the selections kept.
SpecFair == Init /\ [][NextFair]_vars

(* --------------------------- block I/O pump --------------------------- *)
BioFds == {BLKFDOFF + n : n \in 0..(MaxDev - 1)}
BioOps == {RUMPUSER_BIO_READ, RUMPUSER_BIO_WRITE}
DlenArgs == 1..MaxLen

\* memalloc gives a record that is not in use.
FreeReqs == {r \in Reqs : aio[r].st = "free"}
NewReq == CHOOSE r \in FreeReqs : \A q \in FreeReqs : r <= q

\* rumpuser_mutex_enter / _enter_nowrap: the caller proceeds when the mutex
\* is free; rumpuser_mutex_exit frees it.
rumpuser_mutex_free(m) == m = NoThread

\* rumpuser_cv_signal: one waiter, if there is one, is taken off the
\* condition variable and woken.
SignalTarget(cv) == IF cv = {} THEN NoThread
                    ELSE CHOOSE w \in cv : \A v \in cv : w <= v
rumpuser_cv_signal(th, cv) ==
    IF cv = {} THEN th ELSE wake(th, SignalTarget(cv))

\* wake_up(&blkfront_queue), done by the backend's event handler.
RECURSIVE wake_up(_, _)
wake_up(th, q) ==
    IF q = {} THEN th
    ELSE LET w == CHOOSE w \in q : TRUE
         IN wake_up(wake(th, w), q \ {w})

\* blkfront_aio_read / blkfront_aio_write: the request is with the backend,
\* whatever the direction of the transfer.
blkfront_aio_read(a, r) == [a EXCEPT ![r].st = "inflight"]
blkfront_aio_write(a, r) == [a EXCEPT ![r].st = "inflight"]

\* rumpuser_bio, lines 406-413: the record, and the first look at bio_inited.
Bio(t, fd, dlen) ==
    /\ Running(t)
    /\ FreeReqs # {}
    /\ bio_inited \/ Unborn # {}
    /\ aio' = [aio EXCEPT ![NewReq] =
                  [st |-> "alloc", bio_num |-> fd - BLKFDOFF,
                   aio_nbytes |-> dlen, ret |-> 0, counted |-> FALSE]]
    /\ biocb' = [biocb EXCEPT ![t] = NewReq]
    /\ pc' = [pc EXCEPT ![t] = IF bio_inited THEN "bio_425" ELSE "bio_414"]
    /\ UNCHANGED <<thread_list, exited_threads, joinwq, thr, current, now, ret,
                   arg, rv, freed, stack_freed, block_deadline, cause,
                   joinable, sleepcall>>
    /\ UNCHANGED <<bio_inited, bio_mtx, bio_cv, bio_outstanding_total,
                   blkdev_outstanding, blkfront_queue, bio_done>>

\* a second look at bio_inited that always finds the pump missing
bio_init_needed_unchecked(inited) == TRUE

\* rumpuser_bio, line 415: the second look at bio_inited, under bio_mtx.
bio_init_needed(inited) == ~inited

\* rumpuser_bio, lines 414-423: under bio_mtx the flag is looked at again;
\* the caller that finds it clear sets it, releases the mutex and creates
\* the pump thread.
BioInit(t) ==
    /\ t = current /\ pc[t] = "bio_414"
    /\ rumpuser_mutex_free(bio_mtx)
    /\ IF bio_init_needed(bio_inited)
       THEN /\ Unborn # {}
            /\ bio_inited' = TRUE
            /\ LET n == NewThread IN
               /\ thr' = create_thread(thr, n, "NULL")
               /\ thread_list' = Append(thread_list, n)
               /\ pc' = [pc EXCEPT ![n] = "bt_369", ![t] = "bio_425"]
               /\ joinable' = [joinable EXCEPT ![n] = "no"]
               /\ cause' = [cause EXCEPT ![n] = "none"]
       ELSE /\ pc' = [pc EXCEPT ![t] = "bio_425"]
            /\ UNCHANGED <<bio_inited, thr, thread_list, joinable, cause>>
    /\ UNCHANGED <<exited_threads, joinwq, current, now, ret, arg, rv, freed,
                   stack_freed, block_deadline, sleepcall>>
    /\ UNCHANGED <<bio_mtx, bio_cv, bio_outstanding_total, blkdev_outstanding,
                   blkfront_queue, aio, bio_done, biocb>>

\* rumpuser_bio, lines 425-439: the request is handed to the backend.
BioSubmit(t, op) ==
    /\ t = current /\ pc[t] = "bio_425"
    /\ aio' = IF op = RUMPUSER_BIO_READ
              THEN blkfront_aio_read(aio, biocb[t])
              ELSE blkfront_aio_write(aio, biocb[t])
    /\ pc' = [pc EXCEPT ![t] = "bio_441"]
    /\ UNCHANGED <<thread_list, exited_threads, joinwq, thr, current, now, ret,
                   arg, rv, freed, stack_freed, block_deadline, cause,
                   joinable, sleepcall>>
    /\ UNCHANGED <<bio_inited, bio_mtx, bio_cv, bio_outstanding_total,
                   blkdev_outstanding, blkfront_queue, bio_done, biocb>>

\* rumpuser_bio, lines 441-442: bio_mtx is taken and the total incremented.
BioLock(t) ==
    /\ t = current /\ pc[t] = "bio_441"
    /\ rumpuser_mutex_free(bio_mtx)
    /\ bio_mtx' = t
    /\ bio_outstanding_total' = bio_outstanding_total + 1
    /\ pc' = [pc EXCEPT ![t] = "bio_443"]
    /\ UNCHANGED <<thread_list, exited_threads, joinwq, thr, current, now, ret,
                   arg, rv, freed, stack_freed, block_deadline, cause,
                   joinable, sleepcall>>
    /\ UNCHANGED <<bio_inited, bio_cv, blkdev_outstanding, blkfront_queue, aio,
                   bio_done, biocb>>

\* rumpuser_bio that leaves the counter of the slot alone
bio_count_slot_skipped(slot, num) == slot

\* rumpuser_bio, line 443.
bio_count_slot(slot, num) == [slot EXCEPT ![num] = @ + 1]

\* rumpuser_bio, lines 443-447: the counter of the slot and the signal, and
\* bio_mtx is released.
BioCount(t) ==
    /\ t = current /\ pc[t] = "bio_443"
    /\ bio_mtx = t
    /\ bio_mtx' = NoThread
    /\ LET r == biocb[t]
           num == aio[r].bio_num
       IN /\ blkdev_outstanding' = bio_count_slot(blkdev_outstanding, num)
          /\ aio' = [aio EXCEPT ![r].counted = TRUE]
    /\ thr' = rumpuser_cv_signal(thr, bio_cv)
    /\ cause' = IF bio_cv = {} THEN cause ELSE Woken(SignalTarget(bio_cv))
    /\ bio_cv' = bio_cv \ {SignalTarget(bio_cv)}
    /\ biocb' = [biocb EXCEPT ![t] = NoReq]
    /\ pc' = [pc EXCEPT ![t] = "user"]
    /\ UNCHANGED <<thread_list, exited_threads, joinwq, current, now, ret, arg,
                   rv, freed, stack_freed, block_deadline, joinable, sleepcall>>
    /\ UNCHANGED <<bio_inited, bio_outstanding_total, blkfront_queue, bio_done>>

\* The backend finishes a request: it enters the completion queue of its
\* device with its result, and the event handler wakes blkfront_queue.
BackendComplete(r, ok) ==
    /\ aio[r].st = "inflight"
    /\ aio' = [aio EXCEPT ![r].st = "ready", ![r].ret = IF ok THEN 0 ELSE 1]
    /\ thr' = wake_up(thr, blkfront_queue)
    /\ cause' = [u \in Threads |->
                   IF u \in blkfront_queue /\ ~is_runnable(thr, u)
                   THEN "wake" ELSE cause[u]]
    /\ UNCHANGED <<thread_list, exited_threads, joinwq, current, now, pc, ret,
                   arg, rv, freed, stack_freed, block_deadline, joinable,
                   sleepcall>>
    /\ UNCHANGED <<bio_inited, bio_mtx, bio_cv, bio_outstanding_total,
                   blkdev_outstanding, blkfront_queue, bio_done, biocb>>

\* What biocomp and the poll loop work on.
BioState == [aio |-> aio, done |-> bio_done, total |-> bio_outstanding_total,
             slot |-> blkdev_outstanding, did |-> 0]

\* biocomp that forgets the counter of the slot
biocomp_total_only(s, r) ==
    [s EXCEPT !.done[r] = Append(@, IF s.aio[r].ret # 0
                                    THEN [arg |-> r, nbytes |-> 0, error |-> EIO]
                                    ELSE [arg |-> r, nbytes |-> s.aio[r].aio_nbytes,
                                          error |-> 0]),
              !.aio[r].st = "done",
              !.total = @ - 1]

\* biocomp, lines 341-360: the user's biodone, then the counters.
biocomp(s, r) ==
    [s EXCEPT !.done[r] = Append(@, IF s.aio[r].ret # 0
                                    THEN [arg |-> r, nbytes |-> 0, error |-> EIO]
                                    ELSE [arg |-> r, nbytes |-> s.aio[r].aio_nbytes,
                                          error |-> 0]),
              !.aio[r].st = "done",
              !.total = @ - 1,
              !.slot[s.aio[r].bio_num] = @ - 1]

\* biothread, lines 386-387: the slots that a round polls.  The counter of
\* a slot changes during the round only by the completions of that slot.
Polled(s) == {i \in Slots : s.slot[i] # 0}

\* The requests in the completion queues of the polled devices.
Completed(s) == {r \in Reqs : s.aio[r].st = "ready" /\ s.aio[r].bio_num \in Polled(s)}

\* blkfront_aio_poll over the polled devices, lines 386-389: every request
\* in a completion queue gets its aio_cb called, and is counted in did.
RECURSIVE blkfront_aio_poll(_, _)
blkfront_aio_poll(s, q) ==
    IF q = {} THEN s
    ELSE LET r == CHOOSE r \in q : \A o \in q : r <= o
         IN blkfront_aio_poll([biocomp(s, r) EXCEPT !.did = @ + 1], q \ {r})

\* biothread, lines 369-371: registration with the runtime.
BtStart(t) ==
    /\ t = current /\ pc[t] = "bt_369"
    /\ pc' = [pc EXCEPT ![t] = "bt_374"]
    /\ UNCHANGED <<thread_list, exited_threads, joinwq, thr, current, now, ret,
                   arg, rv, freed, stack_freed, block_deadline, cause,
                   joinable, sleepcall>>
    /\ NoBio

\* biothread, line 374: the pump takes bio_mtx.
BtEnter(t) ==
    /\ t = current /\ pc[t] = "bt_374"
    /\ rumpuser_mutex_free(bio_mtx)
    /\ bio_mtx' = t
    /\ pc' = [pc EXCEPT ![t] = "bt_375"]
    /\ UNCHANGED <<thread_list, exited_threads, joinwq, thr, current, now, ret,
                   arg, rv, freed, stack_freed, block_deadline, cause,
                   joinable, sleepcall>>
    /\ UNCHANGED <<bio_inited, bio_cv, bio_outstanding_total,
                   blkdev_outstanding, blkfront_queue, aio, bio_done, biocb>>

\* biothread, lines 375-378: with nothing outstanding the pump waits on
\* bio_cv (the mutex is released, the pump blocks and yields); otherwise it
\* releases the mutex and goes on to poll.
BtTest(t) ==
    /\ t = current /\ pc[t] = "bt_375"
    /\ bio_mtx' = NoThread
    /\ IF bio_outstanding_total = 0
       THEN /\ bio_cv' = bio_cv \cup {t}
            /\ thr' = block(thr, t)
            /\ cause' = [cause EXCEPT ![t] = "none"]
            /\ CallSchedule(t, "bt_376")
       ELSE /\ pc' = [pc EXCEPT ![t] = "bt_386"]
            /\ UNCHANGED <<bio_cv, thr, cause, ret>>
    /\ UNCHANGED <<thread_list, exited_threads, joinwq, current, now, arg, rv,
                   freed, stack_freed, block_deadline, joinable, sleepcall>>
    /\ UNCHANGED <<bio_inited, bio_outstanding_total, blkdev_outstanding,
                   blkfront_queue, aio, bio_done, biocb>>

\* rumpuser_cv_wait_nowrap returns: the pump is off the condition variable
\* and holds bio_mtx again.
BtCvReturn(t) ==
    /\ t = current /\ pc[t] = "bt_376"
    /\ rumpuser_mutex_free(bio_mtx)
    /\ bio_mtx' = t
    /\ bio_cv' = bio_cv \ {t}
    /\ pc' = [pc EXCEPT ![t] = "bt_375"]
    /\ UNCHANGED <<thread_list, exited_threads, joinwq, thr, current, now, ret,
                   arg, rv, freed, stack_freed, block_deadline, cause,
                   joinable, sleepcall>>
    /\ UNCHANGED <<bio_inited, bio_outstanding_total, blkdev_outstanding,
                   blkfront_queue, aio, bio_done, biocb>>

\* biothread, lines 385-396: a round of polls; with a completion the pump
\* goes back to line 374, without one it registers on blkfront_queue,
\* yields and polls again.
BtPoll(t) ==
    /\ t = current /\ pc[t] = "bt_386"
    /\ rumpuser_mutex_free(bio_mtx)
    /\ LET s == blkfront_aio_poll(BioState, Completed(BioState)) IN
       /\ aio' = s.aio
       /\ bio_done' = s.done
       /\ bio_outstanding_total' = s.total
       /\ blkdev_outstanding' = s.slot
       /\ IF s.did # 0
          THEN /\ pc' = [pc EXCEPT ![t] = "bt_374"]
               /\ UNCHANGED <<thr, cause, ret, blkfront_queue>>
          ELSE /\ blkfront_queue' = blkfront_queue \cup {t}
               /\ thr' = block(thr, t)
               /\ cause' = [cause EXCEPT ![t] = "none"]
               /\ CallSchedule(t, "bt_386")
    /\ UNCHANGED <<thread_list, exited_threads, joinwq, current, now, arg, rv,
                   freed, stack_freed, block_deadline, joinable, sleepcall>>
    /\ UNCHANGED <<bio_inited, bio_mtx, bio_cv, biocb>>

\* The block I/O operations on top of the scheduler: submitters, the pump
\* and the backend.
BioRoom == Cardinality(Unborn) > (IF bio_inited THEN 1 ELSE 2)

BioNext ==
    \/ Schedule /\ NoHist /\ NoIrq /\ NoBio /\ NoDevs
    \/ Reap /\ NoHist /\ NoIrq /\ NoBio /\ NoDevs
    \/ IdleLoop /\ NoHist /\ NoIrq /\ NoBio /\ NoDevs
    \/ \E t \in Threads :
           Yield(t) /\ NoHist /\ NoIrq /\ NoBio /\ NoDevs
    \/ \E t \in Threads :
           Create(t, "NULL", FALSE) /\ BioRoom /\ NoHist /\ NoIrq /\ NoBio /\ NoDevs
    \/ \E t, u \in Threads :
           Wake(t, u) /\ NoHist /\ NoIrq /\ NoBio /\ NoDevs
    \/ \E t \in Threads, fd \in BioFds, dlen \in DlenArgs :
           Bio(t, fd, dlen) /\ NoHist /\ NoIrq /\ NoDevs
    \/ \E t \in Threads :
           BioInit(t) /\ NoHist /\ NoIrq /\ NoDevs
    \/ \E t \in Threads, op \in BioOps :
           BioSubmit(t, op) /\ NoHist /\ NoIrq /\ NoDevs
    \/ \E t \in Threads :
           BioLock(t) /\ NoHist /\ NoIrq /\ NoDevs
    \/ \E t \in Threads :
           BioCount(t) /\ NoHist /\ NoIrq /\ NoDevs
    \/ \E r \in Reqs, ok \in BOOLEAN :
           BackendComplete(r, ok) /\ NoHist /\ NoIrq /\ NoDevs
    \/ \E t \in Threads :
           BtStart(t) /\ NoHist /\ NoIrq /\ NoDevs
    \/ \E t \in Threads :
           BtEnter(t) /\ NoHist /\ NoIrq /\ NoDevs
    \/ \E t \in Threads :
           BtTest(t) /\ NoHist /\ NoIrq /\ NoDevs
    \/ \E t \in Threads :
           BtCvReturn(t) /\ NoHist /\ NoIrq /\ NoDevs
    \/ \E t \in Threads :
           BtPoll(t) /\ NoHist /\ NoIrq /\ NoDevs

SpecBio == Init /\ [][BioNext]_vars

\* Acquiring a mutex may wait, and waiting is a call of schedule(): the
\* caller of rumpuser_mutex_enter / _enter_nowrap yields and tries again.
MutexPoints == {"bio_414", "bio_441", "bt_374"}

MutexYield(t) ==
    /\ t = current /\ pc[t] \in MutexPoints
    /\ CallSchedule(t, pc[t])
    /\ UNCHANGED <<thread_list, exited_threads, joinwq, thr, current, now, arg,
                   rv, freed, stack_freed, block_deadline, cause, joinable,
                   sleepcall>>
    /\ NoBio

\* The block I/O operations, with yields inside the mutex acquisitions.
BioYieldNext ==
    \/ BioNext
    \/ \E t \in Threads :
           MutexYield(t) /\ NoHist /\ NoIrq /\ NoDevs

SpecBioYield == Init /\ [][BioYieldNext]_vars

\* Fair scheduling of the block I/O operations: the CPU keeps executing the
\* code of the current thread, and user code calls schedule() again.
BioSys ==
    \/ (Schedule \/ Reap \/ IdleLoop) /\ NoBio
    \/ \E t \in Threads :
           \/ BioInit(t) \/ BioLock(t)
           \/ BioCount(t) \/ BtStart(t) \/ BtEnter(t) \/ BtTest(t)
           \/ BtCvReturn(t) \/ BtPoll(t)
           \/ \E op \in BioOps : BioSubmit(t, op)

BioFairness ==
    /\ WF_vars(BioSys /\ NoHist /\ NoIrq /\ NoDevs)
    /\ WF_vars((\E t \in Threads : Yield(t)) /\ NoHist /\ NoIrq /\ NoBio /\ NoDevs)

LiveBio == Init /\ [][BioNext]_vars /\ BioFairness


(* ------------------------ block devices: open/close -------------------- *)
\* A name is a tuple of characters; the characters that the names in use
\* are made of, with their codes.
CharCode(c) ==
    CASE c = "/" -> 47 [] c = "0" -> 48 [] c = "1" -> 49 [] c = "2" -> 50
      [] c = "9" -> 57 [] c = ":" -> 58 [] c = "b" -> 98 [] c = "k" -> 107
      [] c = "l" -> 108 [] c = "s" -> 115 [] OTHER -> 100

Digit(n) == CASE n = 0 -> "0" [] n = 1 -> "1" [] n = 2 -> "2" [] OTHER -> "9"

\* devname2num, lines 256-272.
devname2num(name) ==
    IF Len(name) < 3 \/ SubSeq(name, 1, 3) # <<"b", "l", "k">> \/ Len(name) # 4
    THEN -1
    ELSE LET num == CharCode(name[4]) - CharCode("0")
         IN IF num < 0 \/ num >= NBLKDEV THEN -1 ELSE num

GoodNames == {<<"b", "l", "k", Digit(n)>> : n \in 0..(MaxSlot - 1)}
BadNames == {<<"b", "l", "k", ":">>, <<"b", "l", "k", "/">>,
             <<"s", "d", "k", "0">>, <<"b", "l", "k">>}
OpenModes == [bio : BOOLEAN,
              acc : {RUMPUSER_OPEN_RDONLY, RUMPUSER_OPEN_WRONLY,
                     RUMPUSER_OPEN_RDWR}]

\* What init_blkfront can give: no device, or a device with its mode; the
\* geometry of the device behind a slot is fixed.
InitResults == {"NULL", O_RDONLY, O_RDWR}
dev_sectors(num) == num + 2
dev_sector_size == 512

InCall(t) == devcall[t].fn # "none"

\* History: another thread has changed the slot while t is in a call on it.
Disturb(dc, t, num) ==
    [u \in Threads |->
        IF u # t /\ dc[u].fn # "none" /\ dc[u].num = num
        THEN [dc[u] EXCEPT !.alone = FALSE] ELSE dc[u]]

\* rumpuser_close, lines 300-313, on the state of the slots.
DevState == [open |-> blkopen, devs |-> blkdevs, live |-> blk_live,
             shutdowns |-> blk_shutdowns]

rumpuser_close(d, rfd) ==
    IF d.open[rfd] - 1 = 0
    THEN [d EXCEPT !.open[rfd] = 0,
                   !.devs[rfd] = NoDev,
                   !.live[rfd] = @ \ {d.devs[rfd]},
                   !.shutdowns[rfd] = Append(@, d.devs[rfd])]
    ELSE [d EXCEPT !.open[rfd] = @ - 1]

SetDevState(d) ==
    /\ blkopen' = d.open
    /\ blkdevs' = d.devs
    /\ blk_live' = d.live
    /\ blk_shutdowns' = d.shutdowns

\* rumpuser_open, lines 285-294: after devopen has returned 0.
open_tail(c, info) ==
    IF c.acc \in {RUMPUSER_OPEN_WRONLY, RUMPUSER_OPEN_RDWR}
       /\ info[c.num].mode # O_RDWR
    THEN [c EXCEPT !.rv = EROFS]
    ELSE [c EXCEPT !.rv = 0, !.fd = BLKFDOFF + c.num]

\* rumpuser_getfileinfo, lines 326-331, but for the close of line 329.
info_tail(c, info) ==
    [c EXCEPT !.rv = 0,
              !.size = info[c.num].sectors * info[c.num].sector_size,
              !.type = RUMPUSER_FT_BLK]

\* The thread is in user code and the refcount of the slot is within the
\* bound.
MayOpen(t, name) ==
    /\ Running(t) /\ ~InCall(t)
    /\ devname2num(name) # -1 => blkopen[devname2num(name)] < MaxOpen

SchedSame == UNCHANGED <<thread_list, exited_threads, joinwq, thr, current, now,
                         ret, arg, rv, freed, stack_freed, block_deadline,
                         cause, joinable, sleepcall>>


\* devopen, lines 237-240, for a slot that is open already: the refcount is
\* bumped and devopen returns 1.
devopen_bump(open, num) == [open EXCEPT ![num] = @ + 1]

\* The start of a call that goes through devopen: rumpuser_open (lines
\* 277-283) and rumpuser_getfileinfo (lines 319-324) up to the point where
\* devopen has to initialise the backend.
DevEnter(t, fn, name, bio, acc) ==
    LET num == devname2num(name)
        c == [NoCall EXCEPT !.fn = fn, !.num = num, !.bio = bio, !.acc = acc,
                            !.pre_open = IF num = -1 THEN 0 ELSE blkopen[num],
                            !.pre_dev = IF num = -1 THEN NoDev ELSE blkdevs[num]]
    IN IF ~bio \/ num = -1
       THEN /\ devcall' = [devcall EXCEPT ![t] = [c EXCEPT !.rv = ENXIO]]
            /\ pc' = [pc EXCEPT ![t] = "dev_ret"]
            /\ UNCHANGED blkopen
       ELSE IF blkopen[num] # 0
       THEN /\ blkopen' = devopen_bump(blkopen, num)
            /\ devcall' = [Disturb(devcall, t, num) EXCEPT ![t] = [c EXCEPT !.rv = 1]]
            /\ pc' = [pc EXCEPT ![t] = "dev_ret"]
       ELSE /\ devcall' = [devcall EXCEPT ![t] = c]
            /\ pc' = [pc EXCEPT ![t] = "devopen_244"]
            /\ UNCHANGED blkopen

\* int rumpuser_open(const char *name, int mode, int *fdp)
Open(t, name, mode) ==
    /\ MayOpen(t, name)
    /\ DevEnter(t, "open", name, mode.bio, mode.acc)
    /\ SchedSame
    /\ UNCHANGED <<blkdevs, blkinfos, blk_inits, blk_live, blk_shutdowns,
                   blk_users>>

\* int rumpuser_getfileinfo(const char *name, uint64_t *size, int *type)
GetFileInfo(t, name) ==
    /\ MayOpen(t, name)
    /\ DevEnter(t, "getfileinfo", name, TRUE, RUMPUSER_OPEN_RDONLY)
    /\ SchedSame
    /\ UNCHANGED <<blkdevs, blkinfos, blk_inits, blk_live, blk_shutdowns,
                   blk_users>>

\* devopen, lines 242-245: init_blkfront is called, outside the runtime's
\* scheduler lock; it gives a device or NULL, and the caller may have
\* yielded before it returns.
DevOpenInit(t, res, yields) ==
    /\ t = current /\ pc[t] = "devopen_244"
    /\ blk_inits[devcall[t].num] < MaxInit
    /\ LET num == devcall[t].num
           h == blk_inits[num] + 1
       IN IF res = "NULL"
          THEN /\ devcall' = [devcall EXCEPT ![t].dev = NoDev]
               /\ UNCHANGED <<blkinfos, blk_inits, blk_live>>
          ELSE /\ devcall' = [devcall EXCEPT ![t].dev = h]
               /\ blk_inits' = [blk_inits EXCEPT ![num] = h]
               /\ blk_live' = [blk_live EXCEPT ![num] = @ \cup {h}]
               /\ blkinfos' = [blkinfos EXCEPT ![num] =
                                  [mode |-> res, sectors |-> dev_sectors(num),
                                   sector_size |-> dev_sector_size]]
    /\ IF yields
       THEN CallSchedule(t, "devopen_246")
       ELSE pc' = [pc EXCEPT ![t] = "devopen_246"] /\ UNCHANGED ret
    /\ UNCHANGED <<thread_list, exited_threads, joinwq, thr, current, now, arg,
                   rv, freed, stack_freed, block_deadline, cause, joinable,
                   sleepcall>>
    /\ UNCHANGED <<blkopen, blkdevs, blk_shutdowns, blk_users>>

\* devopen, lines 245-253, and the rest of the caller: rumpuser_open lines
\* 282-294, rumpuser_getfileinfo lines 323-331.
DevOpenDone(t) ==
    /\ t = current /\ pc[t] = "devopen_246"
    /\ LET c == devcall[t]
           num == c.num
           opened == [DevState EXCEPT !.devs[num] = c.dev,
                                      !.open[num] = IF c.dev # NoDev THEN 1 ELSE @]
           done == IF c.dev = NoDev THEN [c EXCEPT !.rv = EIO]
                   ELSE IF c.fn = "open" THEN open_tail(c, blkinfos)
                   ELSE info_tail(c, blkinfos)
       IN /\ SetDevState(IF c.dev # NoDev /\ c.fn = "getfileinfo"
                         THEN rumpuser_close(opened, num) ELSE opened)
          /\ devcall' = [Disturb(devcall, t, num) EXCEPT ![t] = done]
          /\ blk_users' = IF c.fn = "open" /\ done.rv = 0
                          THEN [blk_users EXCEPT ![num] = @ + 1] ELSE blk_users
    /\ pc' = [pc EXCEPT ![t] = "dev_ret"]
    /\ SchedSame
    /\ UNCHANGED <<blkinfos, blk_inits>>

CloseFds == {BLKFDOFF + n : n \in 0..(MaxSlot - 1)}
                \cup {BLKFDOFF - 1, BLKFDOFF + NBLKDEV}

\* int rumpuser_close(int fd), called with a descriptor that an open gave
\* and that is not closed yet, or with one that is out of range.
Close(t, fd) ==
    /\ Running(t) /\ ~InCall(t)
    /\ LET rfd == fd - BLKFDOFF
           c == [NoCall EXCEPT !.fn = "close", !.num = rfd]
       IN IF rfd < 0 \/ rfd + 1 > NBLKDEV
          THEN /\ devcall' = [devcall EXCEPT ![t] = [c EXCEPT !.rv = EBADF]]
               /\ UNCHANGED <<blkopen, blkdevs, blk_live, blk_shutdowns,
                              blk_users>>
          ELSE /\ blk_users[rfd] > 0
               /\ SetDevState(rumpuser_close(DevState, rfd))
               /\ blk_users' = [blk_users EXCEPT ![rfd] = @ - 1]
               /\ devcall' = [Disturb(devcall, t, rfd) EXCEPT ![t] =
                                 [c EXCEPT !.pre_open = blkopen[rfd],
                                           !.pre_dev = blkdevs[rfd]]]
    /\ pc' = [pc EXCEPT ![t] = "dev_ret"]
    /\ SchedSame
    /\ UNCHANGED <<blkinfos, blk_inits>>

\* The call returns to user code.
DevReturn(t) ==
    /\ t = current /\ pc[t] = "dev_ret"
    /\ pc' = [pc EXCEPT ![t] = "user"]
    /\ devcall' = [devcall EXCEPT ![t] = NoCall]
    /\ SchedSame
    /\ UNCHANGED <<blkopen, blkdevs, blkinfos, blk_inits, blk_live,
                   blk_shutdowns, blk_users>>

\* The operations on block devices on top of the scheduler.
DevNext ==
    \/ Schedule /\ NoHist /\ NoIrq /\ NoBio /\ NoDevs
    \/ Reap /\ NoHist /\ NoIrq /\ NoBio /\ NoDevs
    \/ IdleLoop /\ NoHist /\ NoIrq /\ NoBio /\ NoDevs
    \/ \E t \in Threads :
           Yield(t) /\ NoHist /\ NoIrq /\ NoBio /\ NoDevs
    \/ \E t \in Threads :
           Create(t, "NULL", FALSE) /\ Room /\ NoHist /\ NoIrq /\ NoBio /\ NoDevs
    \/ \E t \in Threads, name \in GoodNames \cup BadNames, mode \in OpenModes :
           Open(t, name, mode) /\ NoHist /\ NoIrq /\ NoBio
    \/ \E t \in Threads, name \in GoodNames \cup BadNames :
           GetFileInfo(t, name) /\ NoHist /\ NoIrq /\ NoBio
    \/ \E t \in Threads, res \in InitResults, yields \in BOOLEAN :
           DevOpenInit(t, res, yields) /\ NoHist /\ NoIrq /\ NoBio
    \/ \E t \in Threads :
           DevOpenDone(t) /\ NoHist /\ NoIrq /\ NoBio
    \/ \E t \in Threads, fd \in CloseFds :
           Close(t, fd) /\ NoHist /\ NoIrq /\ NoBio
    \/ \E t \in Threads :
           DevReturn(t) /\ NoHist /\ NoIrq /\ NoBio

SpecDev == Init /\ [][DevNext]_vars

(* ------------------------- event delivery mask ------------------------ *)
\* What a stretch of code does to the event mask and to the shared
\* scheduler data, in program order: local_irq_save, local_irq_restore, a
\* mutation of R, E, J, a thread's flags or wakeup_time, the initialisation
\* of a descriptor that no list holds yet, and a call of schedule().
Ev(ev, what, file, line) == [ev |-> ev, what |-> what, file |-> file, line |-> line]
SchedC == "sched.c"
BaseC == "rumphyper_base.c"
UserCode == "caller"
Save(file, line) == Ev("irq_save", "flags", file, line)
Restore(file, line) == Ev("irq_restore", "flags", file, line)
Mut(what, file, line) == Ev("mut", what, file, line)
FieldInit(what, file, line) == Ev("init", what, file, line)
Call(file, line) == Ev("schedule", "schedule", file, line)

\* void wake(struct thread *thread), lines 281-282
tr_wake == <<Mut("wakeup_time", SchedC, 281), Mut("flags", SchedC, 282)>>

\* void block(struct thread *thread), lines 247-248
tr_block == <<Mut("wakeup_time", SchedC, 247), Mut("flags", SchedC, 248)>>

\* schedule(): line 85 on entry; lines 108-109 when the scan timed a thread
\* out; lines 117-118 and 129 when it selected one.  A pass that selects
\* nothing ends in block_domain with the mask still saved.
tr_schedule(entry, timedout, selected) ==
    (IF entry THEN <<Save(SchedC, 85)>> ELSE <<>>)
    \o (IF timedout THEN <<Mut("flags", SchedC, 108)>> \o tr_wake ELSE <<>>)
    \o (IF selected
        THEN <<Mut("R", SchedC, 117), Mut("R", SchedC, 118), Restore(SchedC, 129)>>
        ELSE <<>>)

\* schedule(), lines 134-143: the reaping loop
tr_reap(reaps) == IF reaps THEN <<Mut("E", SchedC, 138)>> ELSE <<>>

\* idle_thread_fn, lines 289-290
tr_idle == tr_block \o <<Call(SchedC, 290)>>

\* create_thread, lines 155-162
tr_create_thread ==
    <<FieldInit("flags", SchedC, 155), FieldInit("wakeup_time", SchedC, 156),
      FieldInit("flags", SchedC, 159), Save(SchedC, 160), Mut("R", SchedC, 161),
      Restore(SchedC, 162)>>

\* block(current); schedule(); and schedule() alone, by the caller's code
tr_block_self == tr_block \o <<Call(UserCode, 0)>>
tr_yield == <<Call(UserCode, 0)>>

\* dosleep, lines 257-258, line 259-260, line 263
tr_dosleep_arm == <<Mut("wakeup_time", SchedC, 257), Mut("flags", SchedC, 258)>>
tr_dosleep_park == <<Mut("flags", SchedC, 259), Call(SchedC, 260)>>
tr_dosleep_done == <<Mut("flags", SchedC, 263)>>

\* rumpuser_clock_sleep, RUMPUSER_CLOCK_ABSMONO: line 150, lines 151-152
tr_clock_arm == <<Mut("wakeup_time", BaseC, 150)>>
tr_clock_park == <<Mut("flags", BaseC, 151), Call(BaseC, 152)>>

\* exit_thread: a turn of the gate, lines 180 (or 194) to 193
tr_exit_gate(wakes) ==
    <<Save(SchedC, 180), Mut("flags", SchedC, 182), Restore(SchedC, 183)>>
    \o (IF wakes THEN tr_wake ELSE <<>>)
    \o tr_block \o <<Call(SchedC, 193)>>

\* exit_thread: past the gate, lines 180 (or 194) and 200-209
tr_exit_final ==
    <<Save(SchedC, 180), Mut("R", SchedC, 200), Mut("flags", SchedC, 201),
      Mut("E", SchedC, 203), Restore(SchedC, 204), Call(SchedC, 209)>>

\* join_thread: a wait, lines 221 (or 234) to 231
tr_join_wait ==
    <<Save(SchedC, 221), Restore(SchedC, 225), Mut("J", SchedC, 229)>>
    \o tr_block \o <<Call(SchedC, 231)>>

\* join_thread: the acknowledgement, lines 221 (or 234) and 239-242
tr_join_ack ==
    <<Save(SchedC, 221), Mut("flags", SchedC, 239), Restore(SchedC, 240)>>
    \o tr_wake

\* join_thread, line 232
tr_join_unlink == <<Mut("J", SchedC, 232)>>

\* biothread, lines 384 (or 395) to 397: a round of polls; without a
\* completion add_waiter blocks the pump (line 392) and it yields.
tr_biothread_poll(did) ==
    <<Save(BaseC, 384)>>
    \o (IF did THEN <<Restore(BaseC, 397)>>
        ELSE tr_block \o <<Restore(BaseC, 393), Call(BaseC, 394)>>)

\* The mask while a trace runs, and the log of its mutations and calls.
IrqStep(s, e) ==
    CASE e.ev = "irq_save" ->
           [s EXCEPT !.saved = Append(@, s.flags), !.flags = 1]
      [] e.ev = "irq_restore" ->
           [s EXCEPT !.flags = s.saved[Len(s.saved)],
                     !.saved = SubSeq(@, 1, Len(@) - 1)]
      [] e.ev \in {"mut", "schedule"} ->
           [s EXCEPT !.log = @ \cup {[e |-> e, masked |-> s.flags # 0]}]
      [] OTHER -> s

RECURSIVE IrqRun(_, _, _)
IrqRun(s, trace, i) ==
    IF i > Len(trace) THEN s ELSE IrqRun(IrqStep(s, trace[i]), trace, i + 1)

\* The step runs the trace, in a system that has not hit BUG().
Irq(trace) ==
    /\ bug = "none"
    /\ LET s == IrqRun([flags |-> irq_flags, saved |-> irq_saved, log |-> {}],
                       trace, 1)
       IN /\ irq_flags' = s.flags
          /\ irq_saved' = s.saved
          /\ irq_log' = s.log
    /\ UNCHANGED <<in_callback, bug>>

\* a schedule() without the checks of lines 87-94
sched_entry_unchecked(cb, flags) == TRUE

\* schedule(), lines 87 and 91: not in a callback, and the mask that
\* local_irq_save found was clear.
sched_entry_ok(cb, flags) == ~cb /\ flags = 0

\* schedule() is entered, and not resumed after block_domain.
SchedEntry == pc[current] = "sched" /\ block_deadline = 0

\* A pass of schedule() that got by the checks of its entry.
IrqSchedule ==
    /\ SchedEntry => sched_entry_ok(in_callback, irq_flags)
    /\ Schedule
    /\ Irq(tr_schedule(SchedEntry, thr' # thr, block_deadline' = 0))

\* schedule(), lines 85-94: the mask is saved, and the call ends in BUG().
ScheduleBug ==
    /\ bug = "none"
    /\ SchedEntry /\ ~sched_entry_ok(in_callback, irq_flags)
    /\ bug' = IF in_callback THEN "in_callback" ELSE "irqs_disabled"
    /\ irq_saved' = Append(irq_saved, irq_flags)
    /\ irq_flags' = 1
    /\ irq_log' = {}
    /\ UNCHANGED <<schedvars, in_callback>>

\* A caller outside the scheduler breaks the contract of schedule(): an
\* event callback, run on the stack of the current thread while events are
\* unmasked, calls it.
CallbackSchedule(t) ==
    /\ bug = "none"
    /\ Running(t) /\ irq_flags = 0
    /\ in_callback' = TRUE
    /\ CallSchedule(t, "user")
    /\ irq_log' = {[e |-> Call(UserCode, 0), masked |-> FALSE]}
    /\ UNCHANGED <<thread_list, exited_threads, joinwq, thr, current, now, arg,
                   rv, freed, stack_freed, block_deadline, cause, joinable,
                   sleepcall>>
    /\ UNCHANGED <<irq_flags, irq_saved, bug>>

\* ... or thread code calls it between local_irq_save and local_irq_restore.
MaskedSchedule(t) ==
    /\ Running(t)
    /\ CallSchedule(t, "user")
    /\ Irq(<<Save(UserCode, 0), Call(UserCode, 0)>>)
    /\ UNCHANGED <<thread_list, exited_threads, joinwq, thr, current, now, arg,
                   rv, freed, stack_freed, block_deadline, cause, joinable,
                   sleepcall>>

IrqRoom == Cardinality(Unborn) > MaxThreads - MaxSchedThreads

\* Block I/O is started while only the idle and the main thread exist, and
\* one request is under way at a time.
IrqBioRoom ==
    /\ bio_inited \/ Cardinality(Unborn) = MaxThreads - 2
    /\ FreeReqs = Reqs

\* The operations of the scheduler and of the pump, each with what it does
\* to the event mask.
IrqNext ==
    \/ IrqSchedule /\ NoHist /\ NoBio /\ NoDevs
    \/ ScheduleBug /\ NoHist /\ NoBio /\ NoDevs
    \/ Reap /\ Irq(tr_reap(Reapable(current) # {})) /\ NoHist /\ NoBio /\ NoDevs
    \/ Tick /\ Irq(<<>>) /\ NoHist /\ NoBio /\ NoDevs
    \/ IdleLoop /\ Irq(tr_idle) /\ NoHist /\ NoBio /\ NoDevs
    \/ \E t \in Threads :
           Yield(t) /\ Irq(tr_yield) /\ NoHist /\ NoBio /\ NoDevs
    \/ \E t \in Threads :
           CallbackSchedule(t) /\ NoHist /\ NoBio /\ NoDevs
    \/ \E t \in Threads :
           MaskedSchedule(t) /\ NoHist /\ NoBio /\ NoDevs
    \/ \E t \in Threads, stack \in {"NULL", "ext"}, mj \in BOOLEAN :
           Create(t, stack, mj) /\ IrqRoom /\ Irq(tr_create_thread)
               /\ NoHist /\ NoBio /\ NoDevs
    \/ \E t, u \in Threads :
           Wake(t, u) /\ Irq(tr_wake) /\ NoHist /\ NoBio /\ NoDevs
    \/ \E t \in Threads :
           BlockSelf(t) /\ Irq(tr_block_self) /\ NoHist /\ NoBio /\ NoDevs
    \/ \E t \in Threads :
           Unblocked(t) /\ Irq(<<>>) /\ NoHist /\ NoBio /\ NoDevs
    \/ \E t \in Threads, ms \in SleepArgs :
           Msleep(t, ms) /\ Irq(tr_dosleep_arm) /\ NoHist /\ NoBio /\ NoDevs
    \/ \E t \in Threads, ms \in AbsArgs :
           Absmsleep(t, ms) /\ Irq(tr_dosleep_arm) /\ NoHist /\ NoBio /\ NoDevs
    \/ \E t \in Threads :
           DoSleepPark(t) /\ Irq(tr_dosleep_park) /\ NoHist /\ NoBio /\ NoDevs
    \/ \E t \in Threads :
           DoSleepReturn(t) /\ Irq(tr_dosleep_done) /\ NoHist /\ NoBio /\ NoDevs
    \/ \E t \in Threads :
           SleepResult(t) /\ Irq(<<>>) /\ NoHist /\ NoBio /\ NoDevs
    \/ \E t \in Threads, nsec \in NsecArgs :
           ClockSleepRel(t, 0, nsec) /\ Irq(tr_dosleep_arm)
               /\ NoHist /\ NoBio /\ NoDevs
    \/ \E t \in Threads, nsec \in NsecArgs :
           ClockSleepAbs(t, 0, nsec) /\ Irq(tr_clock_arm)
               /\ NoHist /\ NoBio /\ NoDevs
    \/ \E t \in Threads :
           ClockSleepPark(t) /\ Irq(tr_clock_park) /\ NoHist /\ NoBio /\ NoDevs
    \/ \E t \in Threads :
           Exit(t) /\ Irq(<<>>) /\ NoHist /\ NoBio /\ NoDevs
    \/ \E t \in Threads :
           ExitGate(t)
               /\ Irq(IF exit_gated(thr, t) THEN tr_exit_gate(JoinersOf(t) # {})
                      ELSE tr_exit_final)
               /\ NoHist /\ NoBio /\ NoDevs
    \/ \E t, j \in Threads :
           Join(t, j) /\ Irq(<<>>) /\ NoHist /\ NoBio /\ NoDevs
    \/ \E t \in Threads :
           JoinGate(t)
               /\ Irq(IF join_waits(thr, arg[t]) THEN tr_join_wait ELSE tr_join_ack)
               /\ NoHist /\ NoBio /\ NoDevs
    \/ \E t \in Threads :
           JoinUnlink(t) /\ Irq(tr_join_unlink) /\ NoHist /\ NoBio /\ NoDevs
    \/ \E t \in Threads :
           JoinResult(t) /\ Irq(<<>>) /\ NoHist /\ NoBio /\ NoDevs
    \/ \E t \in Threads, fd \in BioFds, dlen \in DlenArgs :
           Bio(t, fd, dlen) /\ IrqBioRoom /\ Irq(<<>>) /\ NoHist /\ NoDevs
    \/ \E t \in Threads :
           BioInit(t)
               /\ Irq(IF bio_init_needed(bio_inited) THEN tr_create_thread ELSE <<>>)
               /\ NoHist /\ NoDevs
    \/ \E t \in Threads, op \in BioOps :
           BioSubmit(t, op) /\ Irq(<<>>) /\ NoHist /\ NoDevs
    \/ \E t \in Threads :
           BioLock(t) /\ Irq(<<>>) /\ NoHist /\ NoDevs
    \/ \E t \in Threads :
           BioCount(t) /\ Irq(<<>>) /\ NoHist /\ NoDevs
    \/ \E r \in Reqs, ok \in BOOLEAN :
           BackendComplete(r, ok) /\ Irq(<<>>) /\ NoHist /\ NoDevs
    \/ \E t \in Threads :
           BtStart(t) /\ Irq(<<>>) /\ NoHist /\ NoDevs
    \/ \E t \in Threads :
           BtEnter(t) /\ Irq(<<>>) /\ NoHist /\ NoDevs
    \/ \E t \in Threads :
           BtTest(t) /\ Irq(<<>>) /\ NoHist /\ NoDevs
    \/ \E t \in Threads :
           BtCvReturn(t) /\ Irq(<<>>) /\ NoHist /\ NoDevs
    \/ \E t \in Threads :
           BtPoll(t) /\ Irq(tr_biothread_poll(pc'[t] = "bt_374")) /\ NoHist /\ NoDevs

SpecIrq == Init /\ [][IrqNext]_vars

(* ------------------------------ properties ---------------------------- *)
\* The current thread has left the run set in exit_thread and is inside the
\* schedule() of exit_thread's final loop.
ExitingNow(t) == InE(t) /\ pc[t] = "sched" /\ ret[t] = "exit_loop"

\* C1 (as claimed): in every reachable state the current thread is a member
\* of the run set.
C1_CurrentAlwaysInRunSet == current \in Threads /\ InR(current)

\* C1 (amended): there is one current thread; it is a member of the run set
\* except from the moment exit_thread has moved it to the exited set until
\* the schedule() of exit_thread's final loop switches away from it.
C1_CurrentInRunSetUnlessExiting ==
    /\ current \in Threads
    /\ current \notin freed
    /\ InR(current) \/ ExitingNow(current)
    /\ InE(current) => ExitingNow(current)

\* C1 witness: a thread was selected by schedule() after another thread
\* exited through exit_thread.
C1_Witness ==
    /\ exited_threads # <<>>
    /\ InR(current) /\ pc[current] = "sched_reap"

\* C2: no thread is in the run set and in the exited set at once; a thread
\* enters the exited set only from the run set, in exit_thread run by that
\* thread, and once in the exited set (or reclaimed) is never in the run set
\* again.
C2_Disjoint == \A t \in Threads : ~(InR(t) /\ InE(t))

C2_Moves ==
    \A t \in Threads :
        /\ (t \in Range(exited_threads') /\ ~InE(t)) =>
               /\ InR(t) /\ t \notin Range(thread_list')
               /\ t = current /\ pc[t] = "exit_gate"
               /\ t \notin freed
        /\ (InE(t) \/ t \in freed) => t \notin Range(thread_list')

C2_RunSetToExitedOnce == []C2_Disjoint /\ [][C2_Moves]_vars

\* C2 witness: a thread has moved to the exited set and another one runs.
C2_Witness == \E t \in Threads : InE(t) /\ ~InR(t) /\ current # t

\* C3: RUNNABLE implies wakeup_time = 0 for every thread, the current thread
\* between arming its wakeup_time and clearing RUNNABLE (dosleep lines
\* 257-259, rumpuser_clock_sleep lines 150-151) excepted; in particular at
\* every entry to schedule().
Arming(t) == t = current /\ pc[t] \in {"dosleep_259", "clock_151"}

C3_RunnableImpliesNoWakeupTime ==
    \A t \in Threads :
        (is_runnable(thr, t) /\ ~Arming(t)) => thr[t].wakeup_time = 0

\* C3 witness: a timed sleeper was made runnable by the timeout path.
C3_Witness ==
    \E t \in Threads :
        /\ cause[t] = "timeout" /\ is_runnable(thr, t)
        /\ thr[t].wakeup_time = 0

\* C4: when dosleep (msleep, absmsleep) returns, its result is true exactly
\* when the timeout path of schedule() made the sleeper runnable, it is
\* false when a wake did, and THREAD_TIMEDOUT is clear.
C4_SleepResult ==
    \A t \in Threads :
        pc[t] = "slept" =>
            /\ rv[t] <=> (cause[t] = "timeout")
            /\ cause[t] = "wake" => ~rv[t]
            /\ THREAD_TIMEDOUT \notin thr[t].flags

\* C4 witness: msleep returns after a wake by another thread.
C4_Witness ==
    \E t \in Threads :
        pc[t] = "slept" /\ sleepcall[t] = "msleep" /\ cause[t] = "wake"

\* A thread is parked inside the schedule() of dosleep.
ParkedInSleep(t) ==
    pc[t] \in {"sched", "sched_out"} /\ ret[t] = "dosleep_262"

\* C5 (as claimed): a thread in absmsleep(ms) with MILLISECS(ms) <= NOW() at
\* the call, ms = 0 included, that no other thread wakes has its timer armed,
\* so that the scan's timeout path takes it, and its absmsleep returns true.
C5_PastDeadlineTimesOut ==
    \A t \in Threads :
        sleepcall[t] = "abs_past" =>
            /\ (ParkedInSleep(t) /\ cause[t] = "none") =>
                   (thr[t].wakeup_time # 0 /\ thr[t].wakeup_time <= now)
            /\ pc[t] = "slept" => (rv[t] \/ cause[t] = "wake")

\* C6: schedule() selects a thread only if it was runnable before the scan
\* or its non-zero wakeup_time had passed; a thread that parked itself with
\* block() and is selected was made runnable by a wake from another thread.
BlockReturns == {"unblocked", "idle_fn", "exit_gate", "join_unlink"}

C6_Selected ==
    Selecting =>
        LET next == current' IN
        /\ \/ is_runnable(thr, next)
           \/ thr[next].wakeup_time # 0 /\ thr[next].wakeup_time <= now
        /\ (next # current /\ pc[next] = "sched_out"
               /\ ret[next] \in BlockReturns) =>
               (is_runnable(thr, next) /\ cause[next] = "wake")

C6_BlockedUntilWoken == [][C6_Selected]_vars

\* C6 witness: a thread that blocked itself runs again after a wake.
C6_Witness ==
    \E t \in Threads :
        t = current /\ pc[t] = "unblocked" /\ cause[t] = "wake"

\* C7 (as claimed): while threads T1..Tk stay runnable (K[t] holds every
\* thread that has been runnable since t was last selected), each of them
\* is selected at least once in every k consecutive selections, whatever
\* the other threads of the run set do: fewer than k selections have passed
\* t over.
C7_SelectedEveryK ==
    \A t \in Threads : t \in K[t] => since[t] < Cardinality(K[t])

\* C7 (amended): while threads T1..Tk stay runnable, each of them is selected
\* at least once in every k + m consecutive selections, m being the number
\* of threads outside T1..Tk that are selected in the window; no thread is
\* selected twice between two consecutive selections of a thread that stays
\* runnable.  (With m = 0, when no other thread of the run set is or becomes
\* runnable, this is every k selections.)
C7_SelectedEveryKPlusOthers ==
    \A t \in Threads :
        t \in K[t] =>
            /\ since[t] < Cardinality(K[t]) + Cardinality(sel[t] \ K[t])
            /\ since[t] = Cardinality(sel[t])
            /\ t \notin sel[t]

\* C7 witness: a runnable thread has been passed over by two selections.
C7_Witness ==
    \E t \in Threads :
        /\ t \in K[t] /\ since[t] = 2
        /\ Cardinality(K[t]) = 2 /\ Cardinality(sel[t] \ K[t]) = 1

\* A thread is inside the gate of exit_thread / inside join_thread(t).
InExit(t) == pc[t] = "exit_gate" \/ ret[t] = "exit_gate"

\* C8: (a) when join_thread(t) returns, t has entered exit_thread and set
\* THREAD_JOINED, and is still in the run set inside the gate; (b) a thread
\* created with THREAD_MUSTJOIN is in the exited set (or reclaimed) only
\* after a joiner has seen THREAD_JOINED and cleared THREAD_MUSTJOIN.
C8_JoinExitOrder ==
    /\ \A j \in Threads :
           pc[j] = "joined" =>
               /\ THREAD_JOINED \in thr[arg[j]].flags
               /\ InR(arg[j]) /\ InExit(arg[j])
               /\ joinable[arg[j]] = "acked"
    /\ \A t \in Threads :
           (InE(t) \/ t \in freed) =>
               /\ THREAD_MUSTJOIN \notin thr[t].flags
               /\ joinable[t] # "yes"
               /\ joinable[t] = "acked" => THREAD_JOINED \in thr[t].flags

\* C8 witness: a joinable thread has reached the exited set after having
\* been acknowledged by its joiner.
C8_Witness == \E t \in Threads : InE(t) /\ joinable[t] = "acked"

\* C9: once a thread is inside join_thread(t) and t is inside exit_thread,
\* join_thread returns and t reaches the exited set; a thread in the exited
\* set is reclaimed (descriptor, and stack unless THREAD_EXTSTACK) by the
\* next pass of schedule() that returns in another thread, so that it is
\* reclaimed eventually if such passes keep happening.
\* The threads that run user code under the scheduler's operations: all
\* descriptors that can be in use, but the idle thread.
UserThreads == (1..MaxSchedThreads) \ {idle_thread}

C9_Meeting(j, t) ==
    /\ j \in JoiningOn(t) /\ pc[j] # "joined"
    /\ InR(t) /\ InExit(t)

C9_Reclaimed(t) ==
    /\ t \in freed
    /\ THREAD_EXTSTACK \notin thr[t].flags => t \in stack_freed

C9_JoinExitLive ==
    /\ \A j \in UserThreads :
           (\E t \in Threads : C9_Meeting(j, t)) ~> (pc[j] = "joined")
    /\ \A t \in UserThreads :
           (\E j \in Threads : C9_Meeting(j, t)) ~> (InE(t) \/ t \in freed)
    /\ \A t \in UserThreads :
           ([]<><<Reap>>_vars) => (InE(t) ~> C9_Reclaimed(t))
    /\ [][pc[current] = "sched_reap" =>
            \A t \in Threads : (InE(t) /\ t # current) => C9_Reclaimed(t)']_vars

\* C9 as stated: once joiner and exiter have met, join_thread returns, the
\* worker reaches the exited set and is reclaimed, without condition.
C9_JoinExitReclaimedAlways ==
    /\ \A j \in UserThreads :
           (\E t \in Threads : C9_Meeting(j, t)) ~> (pc[j] = "joined")
    /\ \A t \in UserThreads :
           (\E j \in Threads : C9_Meeting(j, t)) ~> C9_Reclaimed(t)

\* C9 witness: a thread created with THREAD_MUSTJOIN has been joined, has
\* exited and has been reclaimed.
C9_Witness ==
    \E t \in Threads : joinable[t] = "acked" /\ t \in freed /\ t \in stack_freed
\* The requests whose submitter has incremented the counters, and those
\* whose completion has decremented them.
Counted(i) == {r \in Reqs : aio[r].counted /\ aio[r].bio_num = i}
Decremented(i) == {r \in Reqs : aio[r].st = "done" /\ aio[r].bio_num = i}
Net(i) == Cardinality(Counted(i)) - Cardinality(Decremented(i))

RECURSIVE SumNet(_)
SumNet(i) == IF i >= NBLKDEV THEN 0 ELSE Net(i) + SumNet(i + 1)

\* The call of biodone that a completed request must have received.
DoneCall(r) ==
    IF aio[r].ret # 0 THEN [arg |-> r, nbytes |-> 0, error |-> EIO]
    ELSE [arg |-> r, nbytes |-> aio[r].aio_nbytes, error |-> 0]

C10_Safe ==
    /\ \A r \in Reqs :
           /\ Len(bio_done[r]) <= 1
           /\ aio[r].st = "done" <=> bio_done[r] = <<DoneCall(r)>>
           /\ aio[r].st # "done" => bio_done[r] = <<>>
    /\ bio_mtx = NoThread => bio_outstanding_total = SumNet(0)
    /\ \A i \in Slots : blkdev_outstanding[i] = Net(i)
    /\ (\A r \in Reqs : aio[r].st \in {"free", "done"} /\ (aio[r].st = "done" => aio[r].counted))
           => /\ bio_outstanding_total = 0
              /\ \A i \in Slots : blkdev_outstanding[i] = 0

RECURSIVE SumSlots(_)
SumSlots(i) == IF i >= NBLKDEV THEN 0
               ELSE blkdev_outstanding[i] + SumSlots(i + 1)

\* C11: in every state in which bio_mtx is not held, bio_outstanding_total
\* is the sum of blkdev_outstanding over all NBLKDEV slots.
C11_TotalIsSumOfSlots ==
    bio_mtx = NoThread => bio_outstanding_total = SumSlots(0)

\* C11 witness: bio_mtx is free while requests are outstanding on two
\* slots, one of them submitted and one completed since the pump started.
C11_Witness ==
    /\ bio_mtx = NoThread
    /\ \E i, k \in Slots :
           i # k /\ blkdev_outstanding[i] # 0 /\ blkdev_outstanding[k] # 0
    /\ bio_outstanding_total = 2
\* A call of fn on a slot has come to its return, and no other thread has
\* changed the slot during the call.
Returned(t, fn) ==
    /\ pc[t] = "dev_ret" /\ devcall[t].fn = fn
    /\ devcall[t].num # -1 /\ devcall[t].alone

\* C12: when rumpuser_open returns ENXIO, EIO or EROFS, the refcount and
\* the handle of the slot are what they were before the call.
C12_FailedOpenLeavesSlot ==
    \A t \in Threads :
        (Returned(t, "open") /\ devcall[t].rv \in {ENXIO, EIO, EROFS}) =>
            /\ blkopen[devcall[t].num] = devcall[t].pre_open
            /\ blkdevs[devcall[t].num] = devcall[t].pre_dev

\* C13: rumpuser_open with a valid name, the BIO flag and an access mode
\* that the device supports returns 0 and stores BLKFDOFF + n, unless the
\* backend refuses the device.
C13_OpenGivesFd ==
    \A t \in Threads :
        LET c == devcall[t] IN
        (/\ Returned(t, "open") /\ c.bio /\ c.rv # EIO
         /\ \/ c.acc = RUMPUSER_OPEN_RDONLY
            \/ blkinfos[c.num].mode = O_RDWR) =>
            c.rv = 0 /\ c.fd = BLKFDOFF + c.num

\* C14: a slot has at most one initialised backend device at a time, every
\* call of shutdown_blkfront is given an initialised device that was not
\* shut down before, and a slot with refcount 0 and no open in progress has
\* no initialised device.
C14_OneInitOneShutdown ==
    \A i \in Slots :
        /\ Cardinality(blk_live[i]) <= 1
        /\ \A k \in 1..Len(blk_shutdowns[i]) :
               /\ blk_shutdowns[i][k] # NoDev
               /\ \A m \in 1..Len(blk_shutdowns[i]) :
                      blk_shutdowns[i][m] = blk_shutdowns[i][k] => m = k
        /\ (blkopen[i] = 0 /\ \A t \in Threads : ~InCall(t)) => blk_live[i] = {}

\* C15: rumpuser_getfileinfo on a valid name returns 0 with the size and
\* the type of the device, unless the backend refuses it, and leaves the
\* refcount of the slot as it was before the call.
C15_FileInfoKeepsRefcount ==
    \A t \in Threads :
        LET c == devcall[t] IN
        Returned(t, "getfileinfo") =>
            /\ blkopen[c.num] = c.pre_open
            /\ c.rv # EIO =>
                   /\ c.rv = 0 /\ c.type = RUMPUSER_FT_BLK
                   /\ c.size = blkinfos[c.num].sectors * blkinfos[c.num].sector_size
\* The schedule() calls of the scheduler's and the pump's own code.
InScope(e) == e.ev = "schedule" /\ e.file # UserCode

\* schedule() was entered in a callback or with the mask already set.
BadEntry == SchedEntry /\ (in_callback \/ irq_flags # 0)

\* C16: a schedule() entered in a callback or with events masked makes no
\* scan, rotation or switch, and its local_irq_save is followed by BUG();
\* and the calls of
\* schedule() in exit_thread, join_thread, dosleep, idle_thread_fn, biothread
\* and rumpuser_clock_sleep are made with events unmasked.
C16_ScheduleContract ==
    /\ [](\A l \in irq_log : InScope(l.e) => ~l.masked /\ ~in_callback)
    /\ [][BadEntry =>
            /\ UNCHANGED <<thread_list, exited_threads, joinwq, current, pc,
                           block_deadline>>
            /\ <<irq_flags, irq_saved>>' # <<irq_flags, irq_saved>> =>
                   bug' # "none"]_vars

C16_Witness ==
    /\ bug = "in_callback"
    /\ pc[current] = "sched" /\ Len(thread_list) > 1

\* C17: every mutation of R, E, J, a thread's flags and a thread's
\* wakeup_time is made between local_irq_save and local_irq_restore.
C17_MutationsMasked == \A l \in irq_log : l.e.ev = "mut" => l.masked
\* The threads that have entered E: those on exited_threads and those
\* already reclaimed.
Exited == Range(exited_threads) \cup freed

\* C18: a thread that has entered E and has been switched away from never
\* runs again; descriptors and stacks are released only by the reaping loop
\* of a thread other than the one released, never those of the running
\* thread, and each at most once.
C18_ExitedNeverRunsReapedOnce ==
    /\ [](/\ \A t \in Exited : t # current => pc[t] = "sched_out"
          /\ current \notin freed /\ current \notin stack_freed
          /\ Range(exited_threads) \cap freed = {}
          /\ \A i, k \in 1..Len(exited_threads) :
                exited_threads[i] = exited_threads[k] => i = k)
    /\ [][/\ \A t \in Exited : t # current => current' # t
          /\ \A t \in Threads :
                (t \in freed' \ freed \/ t \in stack_freed' \ stack_freed) =>
                    /\ pc[current] = "sched_reap" /\ t # current
                    /\ InE(t) /\ ~InE(t)' /\ t \notin freed
                    /\ t \in freed']_vars

C18_Witness ==
    \E t \in freed, u \in Range(exited_threads) :
        /\ u # current /\ pc[u] = "sched_out"
        /\ t \in stack_freed
        /\ pc[current] = "sched_reap"
\* The threads of the run set that sleep with a deadline, and whether the
\* scan has anything to select: a runnable thread, or a sleeper whose
\* deadline has passed.
Sleepers == {u \in Range(thread_list) :
                ~is_runnable(thr, u) /\ thr[u].wakeup_time # 0}
NothingToRun ==
    /\ RunnableIn(thread_list, thr) = {}
    /\ \A u \in Sleepers : thr[u].wakeup_time > now
Earliest(S) == CHOOSE x \in S : \A y \in S : x <= y

\* C19: a pass of schedule() calls block_domain exactly when no thread of
\* R is runnable or due, with the deadline min(now + 10 s, the smallest
\* non-zero wakeup_time of the non-runnable threads of R), now being read at
\* the start of that pass; when all of them sleep until now + 5 s or later
\* the deadline is between now + 5 s and now + 10 s; otherwise it selects.
C19_BlockDeadline ==
    [][(pc[current] = "sched" /\ now' = now) =>
          IF NothingToRun
          THEN /\ block_deadline' =
                     Earliest({now + SECONDS(10)}
                              \cup {thr[u].wakeup_time : u \in Sleepers})
               /\ (\A u \in Sleepers : thr[u].wakeup_time >= now + SECONDS(5)) =>
                      /\ block_deadline' >= now + SECONDS(5)
                      /\ block_deadline' <= now + SECONDS(10)
               /\ current' = current /\ pc'[current] = "sched"
          ELSE block_deadline' = 0 /\ pc'[current] # "sched"]_vars

C19_Witness ==
    /\ pc[current] = "sched"
    /\ Sleepers # {} /\ NothingToRun
    /\ \A u \in Sleepers : thr[u].wakeup_time >= now + SECONDS(5)
    /\ block_deadline = MILLISECS(LongSleep)
    /\ block_deadline >= now + SECONDS(5)
    /\ block_deadline < now + SECONDS(10)
\* The threads that run biothread: a pump never leaves that function, so
\* there is one for every create_thread(biothread) made.
BtPcs == {"bt_369", "bt_374", "bt_375", "bt_376", "bt_386"}
Pumps == {t \in Threads :
             \/ pc[t] \in BtPcs
             \/ pc[t] \in {"sched", "sched_out", "sched_reap"} /\ ret[t] \in BtPcs}

\* A caller of rumpuser_bio is past the lazy initialisation.
PastInit(t) ==
    \/ pc[t] \in {"bio_425", "bio_441", "bio_443"}
    \/ pc[t] \in {"sched", "sched_out", "sched_reap"} /\ ret[t] = "bio_441"

\* C20: whatever the callers of rumpuser_bio and their yields in the mutex
\* acquisitions, create_thread(biothread) is called at most once, and it has
\* been called before any caller counts or signals a submission.
C20_OnePump ==
    /\ [](/\ Cardinality(Pumps) <= 1
          /\ bio_inited <=> Pumps # {}
          /\ (\/ bio_outstanding_total # 0
              \/ \E i \in Slots : blkdev_outstanding[i] # 0
              \/ \E r \in Reqs : aio[r].counted
              \/ \E t \in Threads : PastInit(t)) => Pumps # {})
    /\ [][Pumps' # Pumps => Pumps = {} /\ Cardinality(Pumps') = 1]_vars

C20_Witness ==
    /\ Cardinality(Pumps) = 1
    /\ \E t, u \in Threads :
          /\ t # u /\ PastInit(t) /\ PastInit(u)
          /\ pc[t] = "bio_443"
          /\ pc[u] = "sched_out" /\ ret[u] = "bio_441"

\* C21: bio_outstanding_total and every blkdev_outstanding[n] are >= 0 in
\* every reachable state, whatever the yields in the mutex acquisitions of
\* the callers of rumpuser_bio and of the pump.
C21_CountersNonNegative ==
    /\ bio_outstanding_total >= 0
    /\ \A i \in Slots : blkdev_outstanding[i] >= 0

\* The order behind C21: a request whose biocomp has run (lines 357-358)
\* has been counted by its own rumpuser_bio before (lines 442-443).
C21_CountedBeforeCompleted ==
    \A r \in Reqs : aio[r].st = "done" => aio[r].counted
====
